---- MODULE Spec2Model ----
(***************************************************************************)
(* The editing-state core of GHOST.md (src/components/Editor.tsx): the     *)
(* live buffer, the undo/redo history with its debounced checkpoint, the   *)
(* debounced draft write to localStorage and the asynchronous file import. *)
(* A text is a tuple of one-character strings, so that the string          *)
(* operations of the source (substring, lastIndexOf, split, endsWith) are  *)
(* computed and not assumed.                                               *)
(***************************************************************************)
EXTENDS Integers, Sequences, FiniteSets, TLC

VARIABLES
    markdown,            \* useState markdown: the live buffer
    historyRef,          \* historyRef.current: [past, future]
    lastSavedMarkdown,   \* lastSavedMarkdown.current: the checkpoint
    historyTimeoutRef,   \* the pending 500 ms history timer and the value it closes over
    autoSaveTimeoutRef,  \* TRUE while the 1000 ms auto-save timer is pending
    localStorage,        \* the value stored under STORAGE_KEY
    fileName,            \* useState fileName
    readers,             \* FileReaders whose readAsText has not completed, in start order
    toast,               \* the notice most recently published
    viewer,              \* Viewer: useState content, loading, error
    share,               \* useState isShareModalOpen, shareUrl, isUrlTooLarge, isShortening
    shortenCalls,        \* the shortenUrl calls of handleShare, in the order of issue
    searchState,         \* useState searchState: isOpen, searchTerm, matchCase, currentIndex, results
    searchDeps,          \* the dependencies with which the search effect ran last
    scroll,              \* syncSourceRef, syncTimeoutRef, the scrollTop of both panes, scroll events due
    lastOp,              \* observer: the handler that ran last
    lastArg,             \* observer: the text that handler was given
    lastFlag,            \* observer: it pushed a snapshot / it was an overtaken import
    scn,                 \* observer: progress through setText, commit, setText, commit, undo, redo
    burst,               \* observer: the current burst of setText calls
    lineage,             \* observer: the texts put into the buffer since the last import
    saves,               \* observer: the buffer changes since the last draft write
    stale,               \* observer: the shortenUrl calls whose dialog is no longer the active one
    race,                \* observer: the state in which both debounce timers were pending, and which have fired
    trip                 \* observer: the buffer before an undo(), until the redo() that follows it

pvars == <<markdown, historyRef, lastSavedMarkdown, historyTimeoutRef,
           autoSaveTimeoutRef, localStorage, fileName, readers, toast, viewer,
           share, shortenCalls, searchState, searchDeps, scroll>>
searchVars == <<searchState, searchDeps>>
ovars == <<lastOp, lastArg, lastFlag, scn, burst, lineage, saves, stale, race,
           trip>>
vars == <<pvars, ovars>>

-----------------------------------------------------------------------------
(* Bounds of the model *)

\* user edits are offered while past and future together hold fewer snapshots
MaxHist == 2
\* a snippet is inserted into a buffer of at most this many characters
MaxSnippetBase == 1
\* values committed one after the other in the history-cap run
MaxCapCommits == 60
\* undo() is offered in the history-cap run while future holds fewer snapshots
MaxCapUndo == 2
\* a wrap template is applied to a buffer of at most this many characters
MaxWrapBase == 3
\* the texts put through the codec have at most this many characters
MaxCodecLen == 3
\* handleShare issues at most this many shortenUrl calls in a session
MaxShareCalls == 2
\* the c parameter of an opened link has at most this many characters
MaxQueryLen == 3
\* the buffer that is searched has at most this many characters
MaxSearchLen == 3
\* the search term has at most this many characters
MaxTermLen == 2
\* scrollHeight - clientHeight of the editor pane and of the preview pane are
\* at most these
MaxEditorScroll == 2
MaxPreviewScroll == 3

(* Program constants *)

\* if (historyRef.current.past.length > 50) historyRef.current.past.shift()
HistoryCap == 50
\* export const MAX_SHAREABLE_URL_LENGTH = 2000
MAX_SHAREABLE_URL_LENGTH == 2000

-----------------------------------------------------------------------------
(* Strings *)

\* stands where no text is held: no text has a character of more than one letter
NoText == <<"none">>
EmptyText == <<>>

Min(a, b) == IF a < b THEN a ELSE b
Max(a, b) == IF a > b THEN a ELSE b

\* String.prototype.substring(a, b), offsets from 0, arguments clamped and ordered
Substring(s, a, b) ==
    LET lo == Max(0, Min(Min(a, b), Len(s)))
        hi == Max(0, Min(Max(a, b), Len(s)))
    IN  SubSeq(s, lo + 1, hi)

\* String.prototype.substring(a)
SubstringFrom(s, a) == Substring(s, a, Len(s))

\* String.prototype.endsWith(suffix)
EndsWith(s, suffix) ==
    /\ Len(suffix) <= Len(s)
    /\ SubSeq(s, Len(s) - Len(suffix) + 1, Len(s)) = suffix

\* String.prototype.lastIndexOf(ch, from) for a one-character ch: the greatest
\* offset <= from holding ch, -1 when there is none; a negative from counts as 0
LastIndexOf(s, ch, from) ==
    LET top == Min(Max(from, 0), Len(s) - 1)
        hits == {i \in 0..top : s[i + 1] = ch}
    IN  IF hits = {} THEN -1 ELSE CHOOSE i \in hits : \A j \in hits : j <= i

\* String.prototype.indexOf(token): the least offset at which token starts, -1 when none
IndexOf(s, token) ==
    LET hits == {i \in 0..(Len(s) - Len(token)) : SubSeq(s, i + 1, i + Len(token)) = token}
    IN  IF hits = {} THEN -1 ELSE CHOOSE i \in hits : \A j \in hits : i <= j

\* String.prototype.split(token) for a non-empty token
RECURSIVE Split(_, _)
Split(s, token) ==
    LET i == IndexOf(s, token)
    IN  IF i = -1 THEN <<s>>
        ELSE <<Substring(s, 0, i)>> \o Split(SubstringFrom(s, i + Len(token)), token)

-----------------------------------------------------------------------------
(* Documents, files and snippets the model draws its inputs from *)

DEFAULT_MARKDOWN == <<"#">>
DefaultFileName == <<"d", "o", "c", "u", "m", "e", "n", "t">>

\* what the user types into the editor
Typed == {<<"a">>, <<"b">>}

\* what localStorage holds under STORAGE_KEY when the session starts
Drafts == {NoText, EmptyText, <<"a">>}

Files == {
    [name |-> <<"n", ".", "m", "d">>, content |-> <<"m">>],
    [name |-> <<"t", ".", "t", "x", "t">>, content |-> <<"a">>],
    [name |-> <<"p", ".", "p", "n", "g">>, content |-> <<"m">>] }

ExtMd == <<".", "m", "d">>
ExtTxt == <<".", "t", "x", "t">>

PlaceholderToken == <<"T", "e", "x", "t">>
DefaultWord == <<"t", "e", "x", "t">>
BoldSyntax == <<"*", "*", "T", "e", "x", "t", "*", "*">>
ItalicSyntax == <<"*", "T", "e", "x", "t", "*">>
\* a template that does not hold the placeholder token
LinkSyntax == <<"[", "T", "i", "t", "l", "e", "]", "(", "u", "r", "l", ")">>
H1Syntax == <<"#", " ">>
\* the backquote, which a TLA+ string cannot hold, is written "^"
FenceSyntax == <<"^", "^", "^", "\n", "\n", "^", "^", "^">>

ToolbarSnippets == {
    [syntax |-> BoldSyntax, type |-> "wrap"],
    [syntax |-> H1Syntax, type |-> "line"],
    [syntax |-> FenceSyntax, type |-> "block"] }

NoTimer == [pending |-> FALSE, newVal |-> NoText]
NoToast == [kind |-> "none", msg |-> "none"]

\* useState<SearchState>({ isOpen: false, searchTerm: "", matchCase: false,
\*                          currentIndex: 0, results: [] })
SearchInitial == [isOpen |-> FALSE, searchTerm |-> <<>>, matchCase |-> FALSE,
                  currentIndex |-> 0, results |-> <<>>]

\* [markdown, searchState.searchTerm, searchState.matchCase] of the search effect
SearchDepsOf(md, st) ==
    [markdown |-> md, searchTerm |-> st.searchTerm, matchCase |-> st.matchCase]

\* useRef(null) syncSourceRef and syncTimeoutRef, both panes at the top, no
\* scroll event due.  syncTimeoutRef is "none" while no release timer is
\* pending, "set" from the setTimeout on, and "due" once its 50 ms have passed.
\* editorMax and previewMax are scrollHeight - clientHeight of the two panes
ScrollInitial == [syncSourceRef |-> "null", syncTimeoutRef |-> "none",
                  editor |-> 0, preview |-> 0, events |-> {},
                  editorMax |-> MaxEditorScroll, previewMax |-> MaxPreviewScroll]

\* the share dialog before the first handleShare: useState(false), useState(""),
\* useState(false), useState(false)
ShareInitial == [isShareModalOpen |-> FALSE, shareUrl |-> <<>>,
                 isUrlTooLarge |-> FALSE, isShortening |-> FALSE]

\* the Viewer before its effect: useState("") content, useState(true) loading,
\* useState(null) error
ViewerInitial == [content |-> <<>>, loading |-> TRUE, error |-> "null"]

-----------------------------------------------------------------------------
(* History *)

EmptyHistory == [past |-> <<>>, future |-> <<>>]

\* pushToHistory pushing the new value, not the checkpoint it replaces
PushToHistoryPushesValue(h, saved, value) ==
    IF value = saved THEN [h |-> h, saved |-> saved]
    ELSE LET pushed == Append(h.past, value)
             capped == IF Len(pushed) > HistoryCap THEN Tail(pushed) ELSE pushed
         IN  [h |-> [past |-> capped, future |-> <<>>], saved |-> value]

\* pushToHistory dropping the newest snapshot, not the oldest, beyond the cap
PushToHistoryDropsNewest(h, saved, value) ==
    IF value = saved THEN [h |-> h, saved |-> saved]
    ELSE LET pushed == Append(h.past, saved)
             capped == IF Len(pushed) > HistoryCap
                       THEN SubSeq(pushed, 1, Len(pushed) - 1) ELSE pushed
         IN  [h |-> [past |-> capped, future |-> <<>>], saved |-> value]

\* pushToHistory without historyRef.current.future = []
PushToHistoryKeepsFuture(h, saved, value) ==
    IF value = saved THEN [h |-> h, saved |-> saved]
    ELSE LET pushed == Append(h.past, saved)
             capped == IF Len(pushed) > HistoryCap THEN Tail(pushed) ELSE pushed
         IN  [h |-> [past |-> capped, future |-> h.future], saved |-> value]

\* pushToHistory(value): the history and the checkpoint it leaves
PushToHistory(h, saved, value) ==
    IF value = saved THEN [h |-> h, saved |-> saved]
    ELSE LET pushed == Append(h.past, saved)
             capped == IF Len(pushed) > HistoryCap THEN Tail(pushed) ELSE pushed
         IN  [h |-> [past |-> capped, future |-> <<>>], saved |-> value]

\* handleUndo pushing the checkpoint, not the live buffer, onto future
UndoResultPushesCheckpoint(h, saved, buf) ==
    IF Len(h.past) = 0 THEN [h |-> h, saved |-> saved, buf |-> buf]
    ELSE LET previous == h.past[Len(h.past)]
         IN  [h |-> [past |-> SubSeq(h.past, 1, Len(h.past) - 1),
                     future |-> Append(h.future, saved)],
              saved |-> previous, buf |-> previous]

\* handleUndo: history, checkpoint and buffer it leaves
UndoResult(h, saved, buf) ==
    IF Len(h.past) = 0 THEN [h |-> h, saved |-> saved, buf |-> buf]
    ELSE LET previous == h.past[Len(h.past)]
         IN  [h |-> [past |-> SubSeq(h.past, 1, Len(h.past) - 1),
                     future |-> Append(h.future, buf)],
              saved |-> previous, buf |-> previous]

\* handleRedo: history, checkpoint and buffer it leaves
RedoResult(h, saved, buf) ==
    IF Len(h.future) = 0 THEN [h |-> h, saved |-> saved, buf |-> buf]
    ELSE LET next == h.future[Len(h.future)]
         IN  [h |-> [past |-> Append(h.past, buf),
                     future |-> SubSeq(h.future, 1, Len(h.future) - 1)],
              saved |-> next, buf |-> next]

\* an auto-save effect that does not run when markdown changes
AutoSaveAfterNoRestart(newMarkdown) == autoSaveTimeoutRef

\* the auto-save effect runs when markdown changes: it clears and restarts its timer
AutoSaveAfter(newMarkdown) ==
    IF newMarkdown # markdown THEN TRUE ELSE autoSaveTimeoutRef

\* setMarkdown(v) and the effects that depend on markdown
SetMarkdown(v) ==
    /\ markdown' = v
    /\ autoSaveTimeoutRef' = AutoSaveAfter(v)

-----------------------------------------------------------------------------
(* insertSnippet *)

\* insertSnippet placing the caret before the suffix of a wrap template
SnippetResultCaretBeforeSuffix(md, syntax, type, start, end) ==
    LET selection == Substring(md, start, end)
    IN  IF type = "wrap" THEN
            LET parts == Split(syntax, PlaceholderToken)
                prefix == parts[1]
                suffix == IF Len(parts) >= 2 THEN parts[2] ELSE EmptyText
                textToUse == IF selection # EmptyText THEN selection ELSE DefaultWord
            IN  [content |-> Substring(md, 0, start) \o prefix \o textToUse \o suffix
                             \o SubstringFrom(md, end),
                 cursor |-> start + Len(prefix) + Len(textToUse)]
        ELSE IF type = "line" THEN
            LET lineStart == LastIndexOf(md, "\n", start - 1) + 1
            IN  [content |-> Substring(md, 0, lineStart) \o syntax
                             \o SubstringFrom(md, lineStart),
                 cursor |-> lineStart + Len(syntax) + Len(selection)]
        ELSE
            [content |-> Substring(md, 0, start) \o <<"\n">> \o syntax \o <<"\n">>
                         \o SubstringFrom(md, end),
             cursor |-> start + Len(syntax) + 2]

\* the new buffer and the caret offset insertSnippet computes
SnippetResult(md, syntax, type, start, end) ==
    LET selection == Substring(md, start, end)
    IN  IF type = "wrap" THEN
            LET parts == Split(syntax, PlaceholderToken)
                prefix == parts[1]
                suffix == IF Len(parts) >= 2 THEN parts[2] ELSE EmptyText
                textToUse == IF selection # EmptyText THEN selection ELSE DefaultWord
            IN  [content |-> Substring(md, 0, start) \o prefix \o textToUse \o suffix
                             \o SubstringFrom(md, end),
                 cursor |-> start + Len(prefix) + Len(textToUse) + Len(suffix)]
        ELSE IF type = "line" THEN
            LET lineStart == LastIndexOf(md, "\n", start - 1) + 1
            IN  [content |-> Substring(md, 0, lineStart) \o syntax
                             \o SubstringFrom(md, lineStart),
                 cursor |-> lineStart + Len(syntax) + Len(selection)]
        ELSE
            [content |-> Substring(md, 0, start) \o <<"\n">> \o syntax \o <<"\n">>
                         \o SubstringFrom(md, end),
             cursor |-> start + Len(syntax) + 2]

-----------------------------------------------------------------------------
(* processFile *)

\* file.name.endsWith(".md") || file.name.endsWith(".txt")
AllowedType(name) == EndsWith(name, ExtMd) \/ EndsWith(name, ExtTxt)

\* file.name.replace(/\.[^/.]+$/, ""): a final dot followed by one or more
\* characters other than "/" and "." is removed
StripExtension(name) ==
    LET dot == LastIndexOf(name, ".", Len(name) - 1)
        rest == SubstringFrom(name, dot + 1)
    IN  IF dot >= 0 /\ Len(rest) >= 1 /\ \A i \in 1..Len(rest) : rest[i] # "/"
        THEN Substring(name, 0, dot)
        ELSE name

RemoveAt(s, i) == SubSeq(s, 1, i - 1) \o SubSeq(s, i + 1, Len(s))

-----------------------------------------------------------------------------
(* The compression codec: compressMarkdown and decompressMarkdown of utils.ts *)
(* and, under them, compressToEncodedURIComponent and                        *)
(* decompressFromEncodedURIComponent of the lz-string package, whose source  *)
(* is not part of the repository: _compress and _decompress with 6 bits per  *)
(* character over the alphabet keyStrUriSafe.                                *)

\* what a function returns for null, and what stands where JavaScript has undefined
Null == NoText
JsUndefined == <<"undefined">>

\* the characters the texts of the model are made of, with their char codes
CharTable == <<
    <<"a", 97>>, <<"b", 98>>, <<"m", 109>>, <<"#", 35>>, <<"|", 124>>,
    <<" ", 32>>, <<"*", 42>>, <<"\n", 10>>, <<"t", 116>>, <<"e", 101>>, <<"x", 120>> >>

\* String.prototype.charCodeAt(0)
CharCode(ch) ==
    LET hits == {i \in 1..Len(CharTable) : CharTable[i][1] = ch}
    IN  IF hits = {} THEN 63 ELSE CharTable[CHOOSE i \in hits : TRUE][2]

\* String.fromCharCode(code); "?" stands for every character outside CharTable
FromCharCode(code) ==
    LET hits == {i \in 1..Len(CharTable) : CharTable[i][2] = code}
    IN  IF hits = {} THEN "?" ELSE CharTable[CHOOSE i \in hits : TRUE][1]

\* keyStrUriSafe, offsets from 0
KeyStrUriSafe == <<
    "A", "B", "C", "D", "E", "F", "G", "H", "I", "J", "K", "L", "M",
    "N", "O", "P", "Q", "R", "S", "T", "U", "V", "W", "X", "Y", "Z",
    "a", "b", "c", "d", "e", "f", "g", "h", "i", "j", "k", "l", "m",
    "n", "o", "p", "q", "r", "s", "t", "u", "v", "w", "x", "y", "z",
    "0", "1", "2", "3", "4", "5", "6", "7", "8", "9", "+", "-", "$" >>

\* getBaseValue(keyStrUriSafe, ch); a character outside the alphabet gives
\* undefined, whose bits all read as 0
BaseValue(ch) ==
    LET hits == {i \in 1..Len(KeyStrUriSafe) : KeyStrUriSafe[i] = ch}
    IN  IF hits = {} THEN 0 ELSE (CHOOSE i \in hits : TRUE) - 1

\* value in n bits, the least significant first
BitsOf(value, n) == [i \in 1..n |-> (value \div (2 ^ (i - 1))) % 2]

\* the six bits of a character of the alphabet, the most significant first
SixBits(ch) == [i \in 1..6 |-> (BaseValue(ch) \div (2 ^ (6 - i))) % 2]

RECURSIVE BitsValue(_)
\* the number whose bits are bs, the most significant first
BitsValue(bs) ==
    IF bs = <<>> THEN 0 ELSE 2 * BitsValue(SubSeq(bs, 1, Len(bs) - 1)) + bs[Len(bs)]

\* the phrase with code i + 2 is the i-th of the dictionary
InDict(dict, phrase) == \E i \in 1..Len(dict) : dict[i] = phrase
DictCode(dict, phrase) == (CHOOSE i \in 1..Len(dict) : dict[i] = phrase) + 2

\* context_enlargeIn--; if it is 0, enlargeIn = 2 ^ numBits and numBits++
LZEnlarge(st) ==
    IF st.enlargeIn - 1 = 0
    THEN [st EXCEPT !.enlargeIn = 2 ^ st.numBits, !.numBits = st.numBits + 1]
    ELSE [st EXCEPT !.enlargeIn = st.enlargeIn - 1]

\* _compress: the output of the code for context_w
LZOutputW(st) ==
    IF st.w \in st.toCreate THEN
        LET code == CharCode(st.w[1])
            written == IF code < 256
                       THEN BitsOf(0, st.numBits) \o BitsOf(code, 8)
                       ELSE BitsOf(1, st.numBits) \o BitsOf(code, 16)
            s1 == LZEnlarge([st EXCEPT !.bits = @ \o written])
        IN  LZEnlarge([s1 EXCEPT !.toCreate = @ \ {st.w}])
    ELSE
        LZEnlarge([st EXCEPT !.bits = @ \o BitsOf(DictCode(st.dict, st.w), st.numBits)])

\* _compress: one turn of the loop over the characters
LZCompressStep(st, c) ==
    LET s1 == IF InDict(st.dict, <<c>>) THEN st
              ELSE [st EXCEPT !.dict = Append(@, <<c>>), !.toCreate = @ \cup {<<c>>}]
        wc == s1.w \o <<c>>
    IN  IF InDict(s1.dict, wc) THEN [s1 EXCEPT !.w = wc]
        ELSE [LZOutputW(s1) EXCEPT !.dict = Append(@, wc), !.w = <<c>>]

RECURSIVE LZCompressLoop(_, _, _)
LZCompressLoop(st, input, ii) ==
    IF ii > Len(input) THEN st
    ELSE LZCompressLoop(LZCompressStep(st, input[ii]), input, ii + 1)

\* _compress: the bits written for input, the end-of-stream code 2 last
LZCompressBits(input) ==
    LET st0 == [dict |-> <<>>, toCreate |-> {}, w |-> <<>>,
                enlargeIn |-> 2, numBits |-> 2, bits |-> <<>>]
        s1 == LZCompressLoop(st0, input, 1)
        s2 == IF s1.w # <<>> THEN LZOutputW(s1) ELSE s1
    IN  s2.bits \o BitsOf(2, s2.numBits)

\* _compress: six bits to a character; the flush shifts in one to six 0 bits
LZPack(bits) ==
    LET padded == bits \o [i \in 1..(6 - (Len(bits) % 6)) |-> 0]
    IN  [k \in 1..(Len(padded) \div 6) |->
            KeyStrUriSafe[BitsValue(SubSeq(padded, 6 * k - 5, 6 * k)) + 1]]

\* LZString.compressToEncodedURIComponent(input) for a string input
CompressToEncodedURIComponent(input) == LZPack(LZCompressBits(input))

\* input.replace(/ /g, "+")
SpacesToPlus(input) == [i \in 1..Len(input) |-> IF input[i] = " " THEN "+" ELSE input[i]]

RECURSIVE Flatten(_)
Flatten(ss) == IF ss = <<>> THEN <<>> ELSE ss[1] \o Flatten(Tail(ss))

\* _decompress: n bits from offset pos of the stream, the least significant
\* first; past the end of the input every bit reads as 0
LZRead(stream, pos, n) ==
    LET bit(i) == IF pos + i <= Len(stream) THEN stream[pos + i] ELSE 0
    IN  BitsValue([i \in 1..n |-> bit(n + 1 - i)])

\* result.join(""): undefined joins as the empty string
LZJoin(result) == Flatten([i \in 1..Len(result) |->
                              IF result[i] = JsUndefined THEN <<>> ELSE result[i]])

RECURSIVE LZDecompressLoop(_, _, _)
\* _decompress: the while (true) loop; the phrase with code i + 2 is dict[i]
LZDecompressLoop(stream, length, st) ==
    IF st.pos >= 6 * length THEN [kind |-> "text", text |-> <<>>]
    ELSE
        LET c0 == LZRead(stream, st.pos, st.numBits)
            p0 == st.pos + st.numBits
        IN  IF c0 = 2 THEN [kind |-> "text", text |-> LZJoin(st.result)]
            ELSE
                LET width == IF c0 = 0 THEN 8 ELSE 16
                    fresh == c0 \in {0, 1}
                    s1 == IF fresh
                          THEN [st EXCEPT
                                  !.pos = p0 + width,
                                  !.dict = Append(@, <<FromCharCode(LZRead(stream, p0, width))>>),
                                  !.enlargeIn = @ - 1]
                          ELSE [st EXCEPT !.pos = p0]
                    c == IF fresh THEN Len(s1.dict) + 2 ELSE c0
                    s2 == IF s1.enlargeIn = 0
                          THEN [s1 EXCEPT !.enlargeIn = 2 ^ s1.numBits, !.numBits = @ + 1]
                          ELSE s1
                    dictSize == Len(s2.dict) + 3
                    known == c >= 3 /\ c < dictSize /\ s2.dict[c - 2] # JsUndefined
                IN  IF ~known /\ c # dictSize THEN [kind |-> "null", text |-> Null]
                    ELSE IF ~known /\ s2.w = JsUndefined
                    THEN [kind |-> "throws", text |-> Null]
                    ELSE
                        LET entry == IF known THEN s2.dict[c - 2]
                                     ELSE s2.w \o <<s2.w[1]>>
                            s3 == [s2 EXCEPT !.result = Append(@, entry),
                                             !.dict = Append(@, s2.w \o <<entry[1]>>),
                                             !.enlargeIn = @ - 1,
                                             !.w = entry]
                            s4 == IF s3.enlargeIn = 0
                                  THEN [s3 EXCEPT !.enlargeIn = 2 ^ s3.numBits,
                                                  !.numBits = @ + 1]
                                  ELSE s3
                        IN  LZDecompressLoop(stream, length, s4)

\* _decompress(input.length, 32, getNextValue): the first code, then the loop
LZDecompress(input) ==
    LET stream == Flatten([i \in 1..Len(input) |-> SixBits(input[i])])
        next == LZRead(stream, 0, 2)
        width == IF next = 0 THEN 8 ELSE 16
        c == IF next \in {0, 1} THEN <<FromCharCode(LZRead(stream, 2, width))>>
             ELSE JsUndefined
    IN  IF next = 2 THEN [kind |-> "text", text |-> <<>>]
        ELSE LZDecompressLoop(stream, Len(input),
                 [pos |-> IF next \in {0, 1} THEN 2 + width ELSE 2,
                  dict |-> <<c>>, w |-> c, result |-> <<c>>,
                  enlargeIn |-> 4, numBits |-> 3])

\* LZString.decompressFromEncodedURIComponent(input) for a string input
DecompressFromEncodedURIComponent(input) ==
    IF input = <<>> THEN [kind |-> "null", text |-> Null]
    ELSE LZDecompress(SpacesToPlus(input))

\* compressMarkdown(markdown)
compressMarkdown(md) ==
    IF md = EmptyText THEN EmptyText ELSE CompressToEncodedURIComponent(md)

\* decompressMarkdown losing every "+" of its input
decompressMarkdownLosesPlus(compressed) ==
    IF compressed = EmptyText THEN [kind |-> "null", text |-> Null]
    ELSE DecompressFromEncodedURIComponent(
             [i \in 1..Len(compressed) |->
                 IF compressed[i] = "+" THEN "_" ELSE compressed[i]])

\* decompressMarkdown(compressed): the text, null, or an exception of the library
decompressMarkdown(compressed) ==
    IF compressed = EmptyText THEN [kind |-> "null", text |-> Null]
    ELSE DecompressFromEncodedURIComponent(SpacesToPlus(compressed))

-----------------------------------------------------------------------------
(* Observers: they record what happened and constrain nothing *)

ScnIdle == [phase |-> 0, a |-> NoText, b |-> NoText]
BurstIdle == [st |-> "idle", many |-> FALSE, hist0 |-> EmptyHistory, ckpt |-> NoText,
              buf0 |-> NoText]
\* the pending history timer is the one an insertSnippet call scheduled
BurstSnippet == [BurstIdle EXCEPT !.st = "snippet"]
NoLineage == [imported |-> FALSE, vals |-> {}]
NoRace == [on |-> FALSE]
NoTrip == [st |-> "idle", before |-> NoText]

\* the handlers that replace the buffer or rewrite the history outside the
\* setText / history-timer path
Interrupts == {"undo", "redo", "insertSnippet", "importLoad"}

\* progress through: setText(a), commit, setText(b), commit, undo(), redo()
ScnNext(op, v) ==
    CASE op = "setText" ->
            IF scn.phase = 2 THEN [phase |-> 3, a |-> scn.a, b |-> v]
            ELSE IF scn.phase = 4 THEN [phase |-> 3, a |-> scn.b, b |-> v]
            ELSE [phase |-> 1, a |-> v, b |-> NoText]
      [] op = "historyTimer" ->
            IF scn.phase \in {1, 3} THEN [scn EXCEPT !.phase = scn.phase + 1] ELSE ScnIdle
      [] op = "undo" -> IF scn.phase = 4 THEN [scn EXCEPT !.phase = 5] ELSE ScnIdle
      [] op = "redo" -> IF scn.phase = 5 THEN [scn EXCEPT !.phase = 6] ELSE ScnIdle
      [] op \in {"insertSnippet", "importLoad"} -> ScnIdle
      [] OTHER -> scn

\* a burst: setText calls with the history timer pending between them, then its
\* firing; hist0 and ckpt are history and checkpoint before its first call, and
\* buf0 the buffer before it when no earlier timer was still pending then
BurstNext(op) ==
    CASE op = "setText" ->
            IF burst.st = "typing" THEN [burst EXCEPT !.many = TRUE]
            ELSE [st |-> "typing", many |-> FALSE,
                  hist0 |-> historyRef, ckpt |-> lastSavedMarkdown,
                  buf0 |-> IF historyTimeoutRef.pending THEN NoText ELSE markdown]
      [] op = "historyTimer" ->
            IF burst.st = "typing" THEN [burst EXCEPT !.st = "done"] ELSE BurstIdle
      [] op = "insertSnippet" -> BurstSnippet
      [] op \in {"undo", "redo"} -> IF burst.st = "snippet" THEN burst ELSE BurstIdle
      [] op \in Interrupts -> BurstIdle
      [] OTHER -> burst

\* the texts an edit or the import itself has put into the buffer since the last import
LineageNext(op, v) ==
    CASE op = "importLoad" -> [imported |-> TRUE, vals |-> {v}]
      [] op \in {"setText", "insertSnippet"} ->
            IF lineage.imported THEN [lineage EXCEPT !.vals = @ \cup {v}] ELSE lineage
      [] OTHER -> lineage

\* the buffer changes not yet written to the draft ("one", "many"), and how many
\* of them the last write covered ("wroteNone", "wroteOne", "wroteMany")
SavesNext(op, changed) ==
    CASE op = "autoSave" ->
            IF saves = "one" THEN "wroteOne"
            ELSE IF saves = "many" THEN "wroteMany" ELSE "wroteNone"
      [] op = "autoSaveFailed" -> "failed"
      [] OTHER ->
            IF ~changed THEN saves
            ELSE IF saves \in {"one", "many"} THEN "many" ELSE "one"

\* the calls that are stale after the handler op: closing the dialog and a
\* link made without shortening leave every pending call behind, and a call
\* that settles while it is not stale leaves the pending calls issued before it
\* behind
StaleNext(op, flag) ==
    LET pending == {i \in 1..Len(shortenCalls) : shortenCalls[i].pending}
        settled == {i \in pending : ~shortenCalls'[i].pending}
    IN  IF op = "closeShare" \/ (op = "share" /\ ~flag) THEN stale \cup pending
        ELSE IF op \in {"shortened", "shortenFailed"} /\ ~flag
        THEN stale \cup {j \in pending : \E i \in settled : j < i}
        ELSE stale

\* the state in which both debounce timers are pending is kept while the two
\* timers fire, with the timers that have fired; any other handler starts afresh
RaceNext(op) ==
    IF op \in {"historyTimer", "autoSave"} THEN
        IF race.on THEN [race EXCEPT !.fired = @ \cup {op}] ELSE NoRace
    ELSE IF historyTimeoutRef'.pending /\ autoSaveTimeoutRef'
    THEN [on |-> TRUE, fired |-> {}, markdown |-> markdown',
          historyRef |-> historyRef', lastSavedMarkdown |-> lastSavedMarkdown',
          historyTimeoutRef |-> historyTimeoutRef', localStorage |-> localStorage']
    ELSE NoRace

\* an undo() that takes a snapshot from past, then timer firings only, then a
\* redo(): before is the buffer the undo() found
TripNext(op) ==
    CASE op = "undo" ->
            IF historyRef.past # <<>> THEN [st |-> "undone", before |-> markdown]
            ELSE NoTrip
      [] op = "redo" -> IF trip.st = "undone" THEN [trip EXCEPT !.st = "redone"] ELSE NoTrip
      [] op \in {"historyTimer", "autoSave", "autoSaveFailed"} -> trip
      [] OTHER -> NoTrip

\* every handler notes its name, the text it was given and one flag
Observe(op, v, flag) ==
    /\ lastOp' = op
    /\ lastArg' = v
    /\ lastFlag' = flag

\* the observers follow the handler that has just run
WatchScn == scn' = ScnNext(lastOp', lastArg')
WatchBurst == burst' = BurstNext(lastOp')
WatchLineage == lineage' = LineageNext(lastOp', lastArg')
WatchSaves == saves' = SavesNext(lastOp', markdown' # markdown)
WatchStale == stale' = StaleNext(lastOp', lastFlag')
WatchRace == race' = RaceNext(lastOp')
WatchTrip == trip' = TripNext(lastOp')

-----------------------------------------------------------------------------
(* The session *)

\* useState(() => { const saved = localStorage.getItem(STORAGE_KEY);
\*                  return saved ? saved : DEFAULT_MARKDOWN; })
InitialMarkdown(saved) ==
    IF saved # NoText /\ saved # EmptyText THEN saved ELSE DEFAULT_MARKDOWN

Init ==
    /\ localStorage \in Drafts
    /\ markdown = InitialMarkdown(localStorage)
    /\ historyRef = EmptyHistory
    /\ lastSavedMarkdown = markdown
    /\ historyTimeoutRef = NoTimer
    /\ autoSaveTimeoutRef = TRUE
    /\ fileName = DefaultFileName
    /\ readers = <<>>
    /\ toast = NoToast
    /\ viewer = ViewerInitial
    /\ share = ShareInitial
    /\ shortenCalls = <<>>
    /\ searchState = SearchInitial
    /\ searchDeps = SearchDepsOf(markdown, SearchInitial)
    /\ scroll = ScrollInitial
    /\ lastOp = "init"
    /\ lastArg = NoText
    /\ lastFlag = FALSE
    /\ scn = ScnIdle
    /\ burst = BurstIdle
    /\ lineage = NoLineage
    /\ saves = "none"
    /\ stale = {}
    /\ race = NoRace
    /\ trip = NoTrip

\* stands for a storage whose getItem throws: access to it is denied
StorageDenied == <<"denied">>

\* the first render of Editor has returned
Mounted == markdown # NoText

\* the session start at which localStorage.getItem throws: the call stands in
\* the useState initializer with no try around it, so the exception leaves the
\* render of Editor; no state, ref or effect of the component comes to be
InitReadFails ==
    /\ localStorage = StorageDenied
    /\ markdown = NoText
    /\ historyRef = EmptyHistory
    /\ lastSavedMarkdown = NoText
    /\ historyTimeoutRef = NoTimer
    /\ autoSaveTimeoutRef = FALSE
    /\ fileName = DefaultFileName
    /\ readers = <<>>
    /\ toast = NoToast
    /\ viewer = ViewerInitial
    /\ share = ShareInitial
    /\ shortenCalls = <<>>
    /\ searchState = SearchInitial
    /\ searchDeps = SearchDepsOf(markdown, SearchInitial)
    /\ scroll = ScrollInitial
    /\ lastOp = "init"
    /\ lastArg = NoText
    /\ lastFlag = FALSE
    /\ scn = ScnIdle
    /\ burst = BurstIdle
    /\ lineage = NoLineage
    /\ saves = "none"
    /\ stale = {}
    /\ race = NoRace
    /\ trip = NoTrip

\* the session start, the draft being read or the read failing
InitStart == Init \/ InitReadFails

\* the user goes on editing while the history holds fewer than MaxHist snapshots
MayEdit == Len(historyRef.past) + Len(historyRef.future) < MaxHist

\* the timer onMarkdownChange leaves pending
TimerAfterChange(newVal) == [pending |-> TRUE, newVal |-> newVal]

\* onMarkdownChange committing at once instead of after the timer
onMarkdownChangeCommitsNow(newVal) ==
    /\ SetMarkdown(newVal)
    /\ historyTimeoutRef' = TimerAfterChange(newVal)
    /\ LET r == PushToHistory(historyRef, lastSavedMarkdown, newVal)
       IN  /\ historyRef' = r.h
           /\ lastSavedMarkdown' = r.saved
    /\ UNCHANGED <<localStorage, fileName, readers, toast>>
    /\ UNCHANGED <<viewer, share, shortenCalls, searchVars, scroll>>
    /\ Observe("setText", newVal, FALSE)

\* onMarkdownChange(newVal): typing in the editor
onMarkdownChange(newVal) ==
    /\ SetMarkdown(newVal)
    /\ historyTimeoutRef' = TimerAfterChange(newVal)
    /\ UNCHANGED <<historyRef, lastSavedMarkdown, localStorage, fileName, readers, toast>>
    /\ UNCHANGED <<viewer, share, shortenCalls, searchVars, scroll>>
    /\ Observe("setText", newVal, FALSE)

\* the 500 ms timer of onMarkdownChange fires: pushToHistory(newVal)
HistoryTimerFire ==
    /\ historyTimeoutRef.pending
    /\ LET r == PushToHistory(historyRef, lastSavedMarkdown, historyTimeoutRef.newVal)
       IN  /\ historyRef' = r.h
           /\ lastSavedMarkdown' = r.saved
           /\ UNCHANGED <<viewer, share, shortenCalls, searchVars, scroll>>
           /\ Observe("historyTimer", historyTimeoutRef.newVal,
                      r.h.past # historyRef.past \/ r.saved # lastSavedMarkdown)
    /\ historyTimeoutRef' = NoTimer
    /\ UNCHANGED <<markdown, autoSaveTimeoutRef, localStorage, fileName, readers, toast>>

\* a failed draft write after which the timer is started again
AutoSaveTimerFailRetries ==
    /\ autoSaveTimeoutRef
    /\ autoSaveTimeoutRef' = TRUE
    /\ UNCHANGED <<markdown, historyRef, lastSavedMarkdown, historyTimeoutRef,
                   localStorage, fileName, readers, toast>>
    /\ UNCHANGED <<viewer, share, shortenCalls, searchVars, scroll>>
    /\ Observe("autoSaveFailed", NoText, FALSE)

\* the 1000 ms timer fires and localStorage.setItem throws (the quota is
\* exceeded): the exception ends the timer callback, nothing is stored and
\* nothing else of the component is touched
AutoSaveTimerFail ==
    /\ autoSaveTimeoutRef
    /\ autoSaveTimeoutRef' = FALSE
    /\ UNCHANGED <<markdown, historyRef, lastSavedMarkdown, historyTimeoutRef,
                   localStorage, fileName, readers, toast>>
    /\ UNCHANGED <<viewer, share, shortenCalls, searchVars, scroll>>
    /\ Observe("autoSaveFailed", NoText, FALSE)

\* an auto-save timer that stores the checkpoint of the history
AutoSaveTimerFireStoresCheckpoint ==
    /\ autoSaveTimeoutRef
    /\ localStorage' = lastSavedMarkdown
    /\ autoSaveTimeoutRef' = FALSE
    /\ UNCHANGED <<markdown, historyRef, lastSavedMarkdown, historyTimeoutRef,
                   fileName, readers, toast>>
    /\ UNCHANGED <<viewer, share, shortenCalls, searchVars, scroll>>
    /\ Observe("autoSave", NoText, FALSE)

\* the 1000 ms timer of the auto-save effect fires: localStorage.setItem(STORAGE_KEY, markdown)
AutoSaveTimerFire ==
    /\ autoSaveTimeoutRef
    /\ localStorage' = markdown
    /\ autoSaveTimeoutRef' = FALSE
    /\ UNCHANGED <<markdown, historyRef, lastSavedMarkdown, historyTimeoutRef,
                   fileName, readers, toast>>
    /\ UNCHANGED <<viewer, share, shortenCalls, searchVars, scroll>>
    /\ Observe("autoSave", NoText, FALSE)

handleUndo ==
    /\ LET r == UndoResult(historyRef, lastSavedMarkdown, markdown)
       IN  /\ historyRef' = r.h
           /\ lastSavedMarkdown' = r.saved
           /\ SetMarkdown(r.buf)
    /\ UNCHANGED <<historyTimeoutRef, localStorage, fileName, readers, toast>>
    /\ UNCHANGED <<viewer, share, shortenCalls, searchVars, scroll>>
    /\ Observe("undo", NoText, FALSE)

handleRedo ==
    /\ LET r == RedoResult(historyRef, lastSavedMarkdown, markdown)
       IN  /\ historyRef' = r.h
           /\ lastSavedMarkdown' = r.saved
           /\ SetMarkdown(r.buf)
    /\ UNCHANGED <<historyTimeoutRef, localStorage, fileName, readers, toast>>
    /\ UNCHANGED <<viewer, share, shortenCalls, searchVars, scroll>>
    /\ Observe("redo", NoText, FALSE)

\* insertSnippet(syntax, type) with the textarea's selection [start, end):
\* onMarkdownChange(newContent); pushToHistory(newContent)
insertSnippet(syntax, type, start, end) ==
    /\ LET newContent == SnippetResult(markdown, syntax, type, start, end).content
           r == PushToHistory(historyRef, lastSavedMarkdown, newContent)
       IN  /\ SetMarkdown(newContent)
           /\ historyTimeoutRef' = TimerAfterChange(newContent)
           /\ historyRef' = r.h
           /\ lastSavedMarkdown' = r.saved
           /\ UNCHANGED <<viewer, share, shortenCalls, searchVars, scroll>>
           /\ Observe("insertSnippet", newContent,
                      r.h.past # historyRef.past \/ r.saved # lastSavedMarkdown)
    /\ UNCHANGED <<localStorage, fileName, readers, toast>>

\* processFile(file): the type check, then reader.readAsText(file)
processFile(file) ==
    /\ \/ /\ AllowedType(file.name)
          /\ readers' = Append(readers, [file |-> file, overtaken |-> FALSE])
          /\ toast' = toast
          /\ UNCHANGED <<viewer, share, shortenCalls, searchVars, scroll>>
          /\ Observe("readAsText", NoText, FALSE)
       \/ /\ ~AllowedType(file.name)
          /\ readers' = readers
          /\ toast' = [kind |-> "error", msg |-> "Invalid file type."]
          /\ UNCHANGED <<viewer, share, shortenCalls, searchVars, scroll>>
          /\ Observe("rejectFile", NoText, FALSE)
    /\ UNCHANGED <<markdown, historyRef, lastSavedMarkdown, historyTimeoutRef,
                   autoSaveTimeoutRef, localStorage, fileName>>

\* the readers left in flight once reader i has loaded: those started before it
\* have been overtaken
ReadersAfterLoad(i) ==
    RemoveAt([j \in 1..Len(readers) |->
                 IF j < i THEN [readers[j] EXCEPT !.overtaken = TRUE] ELSE readers[j]], i)

\* reader.onload without historyRef.current = { past: [], future: [] }
LoadResultKeepsHistory(file) ==
    [h |-> historyRef, saved |-> file.content,
     name |-> StripExtension(file.name), buf |-> file.content]

\* reader.onload without setFileName(newFileName)
LoadResultKeepsName(file) ==
    [h |-> EmptyHistory, saved |-> file.content,
     name |-> fileName, buf |-> file.content]

\* what reader.onload leaves in history, checkpoint, file name and buffer
LoadResult(file) ==
    [h |-> EmptyHistory, saved |-> file.content,
     name |-> StripExtension(file.name), buf |-> file.content]

\* reader.onload of the i-th reader in flight
ReaderOnLoad(i) ==
    /\ i \in 1..Len(readers)
    /\ LET file == readers[i].file
           r == LoadResult(file)
       IN  /\ historyRef' = r.h
           /\ lastSavedMarkdown' = r.saved
           /\ fileName' = r.name
           /\ SetMarkdown(r.buf)
           /\ toast' = [kind |-> "success", msg |-> "Imported"]
           /\ UNCHANGED <<viewer, share, shortenCalls, searchVars, scroll>>
           /\ Observe("importLoad", file.content, readers[i].overtaken)
    /\ readers' = ReadersAfterLoad(i)
    /\ UNCHANGED <<historyTimeoutRef, localStorage>>

\* reader.onerror clearing the history as reader.onload does
ReaderOnErrorClearsHistory(i) ==
    /\ i \in 1..Len(readers)
    /\ toast' = [kind |-> "error", msg |-> "Failed to read file."]
    /\ readers' = RemoveAt(readers, i)
    /\ historyRef' = EmptyHistory
    /\ UNCHANGED <<markdown, lastSavedMarkdown, historyTimeoutRef,
                   autoSaveTimeoutRef, localStorage, fileName>>
    /\ UNCHANGED <<viewer, share, shortenCalls, searchVars, scroll>>
    /\ Observe("readError", NoText, FALSE)

\* reader.onerror of the i-th reader in flight
ReaderOnError(i) ==
    /\ i \in 1..Len(readers)
    /\ toast' = [kind |-> "error", msg |-> "Failed to read file."]
    /\ readers' = RemoveAt(readers, i)
    /\ UNCHANGED <<markdown, historyRef, lastSavedMarkdown, historyTimeoutRef,
                   autoSaveTimeoutRef, localStorage, fileName>>
    /\ UNCHANGED <<viewer, share, shortenCalls, searchVars, scroll>>
    /\ Observe("readError", NoText, FALSE)

-----------------------------------------------------------------------------
(* The user and the specifications *)

\* the selections the toolbar is used with: the caret at the start, or everything selected
Selections(md) == {<<0, 0>>, <<0, Len(md)>>}

\* typing in the editor
Typing ==
    /\ MayEdit
    /\ \E newVal \in Typed : onMarkdownChange(newVal)

\* a toolbar button
Toolbar ==
    /\ MayEdit
    /\ Len(markdown) <= MaxSnippetBase
    /\ \E sn \in ToolbarSnippets : \E sel \in Selections(markdown) :
          insertSnippet(sn.syntax, sn.type, sel[1], sel[2])

\* the files being read
InFlight == {readers[i].file : i \in 1..Len(readers)}

\* a file dropped on, or opened in, the editor; no file is opened again while it is being read
OpenFile == \E file \in Files \ InFlight : processFile(file)

\* a FileReader in flight completes, or fails
ReadCompletes == \E i \in 1..Len(readers) : ReaderOnLoad(i)
ReadFails == \E i \in 1..Len(readers) : ReaderOnError(i)

\* the messages of the Viewer
NoError == "null"
ErrAbsent == "No content found in the URL. The link might be incomplete."
ErrEmpty == "The shared link content is empty. Please check the URL."
ErrCorrupt == "Failed to load content. The link data might be corrupted or invalid."
ErrException == "An error occurred while processing the content."

\* String.prototype.trim() === ""
TrimIsEmpty(s) == \A i \in 1..Len(s) : s[i] \in {" ", "\n"}

\* a Viewer that shows whatever text decompressMarkdown returns, the empty one too
ViewerAfterShowsEmpty(v, encoded) ==
    IF encoded = Null THEN [v EXCEPT !.error = ErrAbsent, !.loading = FALSE]
    ELSE IF TrimIsEmpty(encoded) THEN [v EXCEPT !.error = ErrEmpty, !.loading = FALSE]
    ELSE
        LET decoded == decompressMarkdown(encoded)
        IN  IF decoded.kind = "throws"
            THEN [v EXCEPT !.error = ErrException, !.loading = FALSE]
            ELSE IF decoded.kind = "text"
            THEN [v EXCEPT !.content = decoded.text, !.error = NoError, !.loading = FALSE]
            ELSE [v EXCEPT !.error = ErrCorrupt, !.loading = FALSE]

\* the Viewer after its effect has run on the c parameter encoded, Null when
\* the URL has no c parameter
ViewerAfter(v, encoded) ==
    IF encoded = Null THEN [v EXCEPT !.error = ErrAbsent, !.loading = FALSE]
    ELSE IF TrimIsEmpty(encoded) THEN [v EXCEPT !.error = ErrEmpty, !.loading = FALSE]
    ELSE
        LET decoded == decompressMarkdown(encoded)
        IN  IF decoded.kind = "throws"
            THEN [v EXCEPT !.error = ErrException, !.loading = FALSE]
            ELSE IF decoded.kind = "text" /\ decoded.text # EmptyText
            THEN [v EXCEPT !.content = decoded.text, !.error = NoError, !.loading = FALSE]
            ELSE [v EXCEPT !.error = ErrCorrupt, !.loading = FALSE]

\* the effect of the Viewer, the page opened at a URL whose c parameter is encoded
ViewerEffect(encoded) ==
    /\ viewer' = ViewerAfter(ViewerInitial, encoded)
    /\ UNCHANGED <<markdown, historyRef, lastSavedMarkdown, historyTimeoutRef,
                   autoSaveTimeoutRef, localStorage, fileName, readers, toast,
                   share, shortenCalls, searchVars, scroll>>
    /\ Observe("openLink", encoded, FALSE)

\* searchParams.get("c") for the query c=compressed: "+" is read as a space
QueryValue(compressed) ==
    [i \in 1..Len(compressed) |-> IF compressed[i] = "+" THEN " " ELSE compressed[i]]

\* what searchParams.get("c") may be when a link is opened: null, or a value
\* made of characters of the codec's alphabet and of spaces
QueryChars == {"I", "Z", "A", "Q", "y", "+", " "}
QueryValues == {Null} \cup UNION {[1..n -> QueryChars] : n \in 0..MaxQueryLen}

\* the Viewer is opened at some link
OpenLink == \E encoded \in QueryValues : ViewerEffect(encoded)

\* the link handleShare makes of the buffer is opened in the Viewer
OpenShareLink ==
    /\ Mounted
    /\ ViewerEffect(QueryValue(compressMarkdown(markdown)))

\* window.location.origin: the origin of the page, a short one and one so long
\* that every link made from it is over MAX_SHAREABLE_URL_LENGTH.  handleShare
\* looks at the length of the whole link only; the long origin brings about the
\* length that a document of some thousand characters has, which may be there
\* at one request and gone at the next
ShortOrigin == <<"o">>
LongOrigin == [i \in 1..MAX_SHAREABLE_URL_LENGTH |-> "o"]
PageOrigins == {ShortOrigin, LongOrigin}

ViewPath == <<"/", "#", "/", "v", "i", "e", "w", "?", "c", "=">>

\* `${window.location.origin}/#/view?c=${compressed}`
GeneratedUrl(origin, md) == origin \o ViewPath \o compressMarkdown(md)

\* what shortenUrl may resolve to: data.shorturl of the service, a short URL or
\* one that is itself over MAX_SHAREABLE_URL_LENGTH
ShortUrl == <<"s">>
OverlongShortUrl == [i \in 1..(MAX_SHAREABLE_URL_LENGTH + 1) |-> "s"]
ShortUrls == {ShortUrl, OverlongShortUrl}

\* the calls of shortenUrl that have not settled
PendingCalls == {i \in 1..Len(shortenCalls) : shortenCalls[i].pending}

\* the pending calls whose result belongs to no view any more: the dialog that
\* issued them has been closed, or a newer share request has produced its result
StaleCalls == stale

\* handleShare taking every link for short enough
handleShareNeverShortens(origin) ==
    LET generatedUrl == GeneratedUrl(origin, markdown)
    IN  /\ share' = [share EXCEPT !.shareUrl = generatedUrl,
                                  !.isUrlTooLarge = FALSE,
                                  !.isShareModalOpen = TRUE]
        /\ toast' = [kind |-> "success", msg |-> "Sharable link generated!"]
        /\ UNCHANGED shortenCalls
        /\ UNCHANGED <<markdown, historyRef, lastSavedMarkdown, historyTimeoutRef,
                       autoSaveTimeoutRef, localStorage, fileName, readers, viewer, searchVars, scroll>>
        /\ Observe("share", generatedUrl, FALSE)

\* handleShare() up to its await, or to its end when the link is short enough
handleShare(origin) ==
    LET generatedUrl == GeneratedUrl(origin, markdown)
    IN  /\ IF Len(generatedUrl) > MAX_SHAREABLE_URL_LENGTH
           THEN /\ share' = [share EXCEPT !.isShortening = TRUE,
                                          !.isShareModalOpen = TRUE]
                /\ shortenCalls' = Append(shortenCalls,
                                          [generatedUrl |-> generatedUrl, pending |-> TRUE])
                /\ UNCHANGED toast
           ELSE /\ share' = [share EXCEPT !.shareUrl = generatedUrl,
                                          !.isUrlTooLarge = FALSE,
                                          !.isShareModalOpen = TRUE]
                /\ toast' = [kind |-> "success", msg |-> "Sharable link generated!"]
                /\ UNCHANGED shortenCalls
        /\ UNCHANGED <<markdown, historyRef, lastSavedMarkdown, historyTimeoutRef,
                       autoSaveTimeoutRef, localStorage, fileName, readers, viewer, searchVars, scroll>>
        /\ Observe("share", generatedUrl, Len(generatedUrl) > MAX_SHAREABLE_URL_LENGTH)

\* handleShare after its await, shortenUrl having resolved to shortUrl
ShortenResolves(i, shortUrl) ==
    /\ i \in PendingCalls
    /\ share' = [share EXCEPT !.shareUrl = shortUrl,
                              !.isUrlTooLarge = FALSE,
                              !.isShortening = FALSE]
    /\ toast' = [kind |-> "success", msg |-> "Short link generated!"]
    /\ shortenCalls' = [shortenCalls EXCEPT ![i].pending = FALSE]
    /\ UNCHANGED <<markdown, historyRef, lastSavedMarkdown, historyTimeoutRef,
                   autoSaveTimeoutRef, localStorage, fileName, readers, viewer, searchVars, scroll>>
    /\ Observe("shortened", shortenCalls[i].generatedUrl, i \in StaleCalls)

\* handleShare after its await, shortenUrl having thrown
ShortenRejects(i) ==
    /\ i \in PendingCalls
    /\ share' = [share EXCEPT !.shareUrl = shortenCalls[i].generatedUrl,
                              !.isUrlTooLarge = TRUE,
                              !.isShortening = FALSE]
    /\ toast' = [kind |-> "error", msg |-> "Document too large for URL sharing"]
    /\ shortenCalls' = [shortenCalls EXCEPT ![i].pending = FALSE]
    /\ UNCHANGED <<markdown, historyRef, lastSavedMarkdown, historyTimeoutRef,
                   autoSaveTimeoutRef, localStorage, fileName, readers, viewer, searchVars, scroll>>
    /\ Observe("shortenFailed", shortenCalls[i].generatedUrl, i \in StaleCalls)

\* the close buttons of the share dialog: setIsShareModalOpen(false)
CloseShareModal ==
    /\ share.isShareModalOpen
    /\ share' = [share EXCEPT !.isShareModalOpen = FALSE]
    /\ UNCHANGED <<markdown, historyRef, lastSavedMarkdown, historyTimeoutRef,
                   autoSaveTimeoutRef, localStorage, fileName, readers, toast,
                   viewer, shortenCalls, searchVars, scroll>>
    /\ Observe("closeShare", NoText, FALSE)

\* the Share Link button, while fewer than MaxShareCalls calls have been issued
ShareButton ==
    /\ Mounted
    /\ Len(shortenCalls) < MaxShareCalls
    /\ \E origin \in PageOrigins : handleShare(origin)

ShortenSettles ==
    \E i \in 1..Len(shortenCalls) :
        \/ \E shortUrl \in ShortUrls : ShortenResolves(i, shortUrl)
        \/ ShortenRejects(i)

-----------------------------------------------------------------------------
(* Search *)

\* the upper-case letters of the model and their lower-case forms
CaseTable == <<
    <<"A", "a">>, <<"B", "b">>, <<"G", "g">>, <<"H", "h">>,
    <<"O", "o">>, <<"S", "s">>, <<"T", "t">> >>

\* the canonical form under which the i flag of a RegExp compares characters
FoldCase(ch) ==
    LET hits == {i \in 1..Len(CaseTable) : CaseTable[i][1] = ch}
    IN  IF hits = {} THEN ch ELSE CaseTable[CHOOSE i \in hits : TRUE][2]

\* new RegExp(term, flags) throws a SyntaxError: of the patterns of the model,
\* those with a "(" that no ")" closes
Malformed(term) ==
    \E i \in 1..Len(term) :
        term[i] = "(" /\ ~\E j \in (i + 1)..Len(term) : term[j] = ")"

RECURSIVE MatchEnd(_, _, _, _, _)
\* the offset at which a match of term[k..] that starts at offset pos of text
\* ends, -1 if there is none; the patterns of the model are sequences of
\* literal characters, ".", "^" and "$"
MatchEnd(text, term, matchCase, pos, k) ==
    IF k > Len(term) THEN pos
    ELSE IF term[k] = "^"
    THEN IF pos = 0 THEN MatchEnd(text, term, matchCase, pos, k + 1) ELSE -1
    ELSE IF term[k] = "$"
    THEN IF pos = Len(text) THEN MatchEnd(text, term, matchCase, pos, k + 1) ELSE -1
    ELSE IF pos >= Len(text) THEN -1
    ELSE IF term[k] = "."
    THEN IF text[pos + 1] # "\n" THEN MatchEnd(text, term, matchCase, pos + 1, k + 1) ELSE -1
    ELSE IF \/ text[pos + 1] = term[k]
            \/ ~matchCase /\ FoldCase(text[pos + 1]) = FoldCase(term[k])
    THEN MatchEnd(text, term, matchCase, pos + 1, k + 1)
    ELSE -1

\* regex.exec(text) with regex.lastIndex = from: the first match at or after
\* from, or null
RegexExec(text, term, matchCase, from) ==
    LET starts == {i \in from..Len(text) : MatchEnd(text, term, matchCase, i, 1) >= 0}
    IN  IF starts = {} THEN [found |-> FALSE, index |-> 0, end |-> 0]
        ELSE LET i == CHOOSE i \in starts : \A j \in starts : i <= j
             IN  [found |-> TRUE, index |-> i, end |-> MatchEnd(text, term, matchCase, i, 1)]

RECURSIVE SearchLoopOverlapping(_, _, _, _, _)
\* the while loop of performSearch going on one character after the start of a match
SearchLoopOverlapping(text, term, matchCase, lastIndex, matches) ==
    LET match == RegexExec(text, term, matchCase, lastIndex)
    IN  IF ~match.found THEN matches
        ELSE SearchLoopOverlapping(text, term, matchCase, match.index + 1,
                                   Append(matches, [start |-> match.index, end |-> match.end]))

RECURSIVE SearchLoop(_, _, _, _, _)
\* the while loop of performSearch: exec sets lastIndex to the end of the match,
\* and the loop moves it on by one after an empty match
SearchLoop(text, term, matchCase, lastIndex, matches) ==
    LET match == RegexExec(text, term, matchCase, lastIndex)
    IN  IF ~match.found THEN matches
        ELSE SearchLoop(text, term, matchCase,
                        IF match.index = match.end THEN match.end + 1 ELSE match.end,
                        Append(matches, [start |-> match.index, end |-> match.end]))

\* performSearch without its guard for the empty term
performSearchNoGuard(text, term, matchCase) ==
    IF Malformed(term) THEN <<>>
    ELSE SearchLoop(text, term, matchCase, 0, <<>>)

\* performSearch(text, term, matchCase)
performSearch(text, term, matchCase) ==
    IF term = EmptyText THEN <<>>
    ELSE IF Malformed(term) THEN <<>>
    ELSE SearchLoop(text, term, matchCase, 0, <<>>)

\* the updater of the search effect with the index kept whenever results are found
SearchStateAfterKeepsIndex(s, results) ==
    [s EXCEPT !.results = results,
              !.currentIndex = IF Len(results) > 0 THEN s.currentIndex ELSE 0]

\* the updater the search effect passes to setSearchState
SearchStateAfter(s, results) ==
    [s EXCEPT !.results = results,
              !.currentIndex = IF Len(results) > 0
                               THEN IF s.currentIndex >= Len(results) THEN 0
                                    ELSE s.currentIndex
                               ELSE 0]

\* a render has changed a dependency of the search effect, which has not run yet
SearchEffectPending == SearchDepsOf(markdown, searchState) # searchDeps

\* the search effect: useEffect on [markdown, searchTerm, matchCase]
SearchEffect ==
    /\ Mounted
    /\ SearchEffectPending
    /\ searchState' = SearchStateAfter(searchState,
           performSearch(markdown, searchState.searchTerm, searchState.matchCase))
    /\ searchDeps' = SearchDepsOf(markdown, searchState)
    /\ UNCHANGED <<markdown, historyRef, lastSavedMarkdown, historyTimeoutRef,
                   autoSaveTimeoutRef, localStorage, fileName, readers, toast,
                   viewer, share, shortenCalls, scroll>>
    /\ Observe("searchEffect", markdown, FALSE)

\* the search button of the toolbar: isOpen: !s.isOpen
ToggleSearch ==
    /\ Mounted
    /\ searchState' = [searchState EXCEPT !.isOpen = ~searchState.isOpen]
    /\ UNCHANGED <<markdown, historyRef, lastSavedMarkdown, historyTimeoutRef,
                   autoSaveTimeoutRef, localStorage, fileName, readers, toast,
                   viewer, share, shortenCalls, searchDeps, scroll>>
    /\ Observe("toggleSearch", NoText, FALSE)

\* onChange of the Find input: searchTerm: e.target.value
SearchInput(term) ==
    /\ Mounted
    /\ searchState.isOpen
    /\ searchState' = [searchState EXCEPT !.searchTerm = term]
    /\ UNCHANGED <<markdown, historyRef, lastSavedMarkdown, historyTimeoutRef,
                   autoSaveTimeoutRef, localStorage, fileName, readers, toast,
                   viewer, share, shortenCalls, searchDeps, scroll>>
    /\ Observe("searchInput", term, FALSE)

\* what is typed into the buffer and into the Find input where search is checked
SearchChars == {"a", "A"}
SearchTexts == UNION {[1..n -> SearchChars] : n \in 0..MaxSearchLen}
TermChars == {"a", ".", "(", "$"}
SearchTerms == UNION {[1..n -> TermChars] : n \in 0..MaxTermLen}

SearchType == \E t \in SearchTexts : onMarkdownChange(t)
FindType == \E term \in SearchTerms : SearchInput(term)

\* the Find input is filled in while it is empty, or cleared
FindFillOrClear ==
    \E term \in SearchTerms :
        /\ searchState.searchTerm = EmptyText \/ term = EmptyText
        /\ SearchInput(term)

-----------------------------------------------------------------------------
(* Scroll synchronisation *)

Panes == {"editor", "preview"}
OtherPane(pane) == IF pane = "editor" THEN "preview" ELSE "editor"
ScrollMax(sc, pane) == IF pane = "editor" THEN sc.editorMax ELSE sc.previewMax
ScrollTop(sc, pane) == IF pane = "editor" THEN sc.editor ELSE sc.preview

\* the product without the division by the range of the driving pane
ScrollTopWritesUnscaled(num, den) == {num}

\* the values scrollTop may take when it is assigned the quotient num / den:
\* the browser keeps it as a whole number of pixels, rounded down or up
ScrollTopWrites(num, den) ==
    {num \div den, IF num % den = 0 THEN num \div den ELSE (num \div den) + 1}

\* an assignment after which a scroll event is owed even if the pane stays
WriteScrollTopAlwaysFires(sc, pane, top) ==
    LET moved == [sc EXCEPT !.events = @ \cup {pane}]
    IN  IF pane = "editor" THEN [moved EXCEPT !.editor = top]
        ELSE [moved EXCEPT !.preview = top]

\* the assignment pane.scrollTop = top: the pane moves, and if it has moved the
\* browser owes it a scroll event
WriteScrollTop(sc, pane, top) ==
    LET moved == [sc EXCEPT !.events = IF top # ScrollTop(sc, pane)
                                       THEN @ \cup {pane} ELSE @]
    IN  IF pane = "editor" THEN [moved EXCEPT !.editor = top]
        ELSE [moved EXCEPT !.preview = top]

\* handleScroll without the test of syncSourceRef
handleScrollNoGuard(sc, source, top) ==
    LET locked == [sc EXCEPT !.syncSourceRef = source]
        synced == IF ScrollMax(sc, source) > 0
                  THEN WriteScrollTop(locked, OtherPane(source), top)
                  ELSE locked
    IN  [synced EXCEPT !.syncTimeoutRef = "set"]

\* handleScroll that leaves a pending release timer running
handleScrollNoRestart(sc, source, top) ==
    IF sc.syncSourceRef # "null" /\ sc.syncSourceRef # source THEN sc
    ELSE
        LET locked == [sc EXCEPT !.syncSourceRef = source]
            synced == IF ScrollMax(sc, source) > 0
                      THEN WriteScrollTop(locked, OtherPane(source), top)
                      ELSE locked
        IN  [synced EXCEPT !.syncTimeoutRef = IF @ = "none" THEN "set" ELSE @]

\* handleScroll that does nothing for a pane that cannot be scrolled
handleScrollOnlyScrollable(sc, source, top) ==
    IF sc.syncSourceRef # "null" /\ sc.syncSourceRef # source THEN sc
    ELSE IF ScrollMax(sc, source) > 0
    THEN [WriteScrollTop([sc EXCEPT !.syncSourceRef = source], OtherPane(source), top)
            EXCEPT !.syncTimeoutRef = "set"]
    ELSE sc

\* handleScroll(source), the other pane's scrollTop being assigned as top
handleScroll(sc, source, top) ==
    IF sc.syncSourceRef # "null" /\ sc.syncSourceRef # source THEN sc
    ELSE
        LET locked == [sc EXCEPT !.syncSourceRef = source]
            synced == IF ScrollMax(sc, source) > 0
                      THEN WriteScrollTop(locked, OtherPane(source), top)
                      ELSE locked
        IN  [synced EXCEPT !.syncTimeoutRef = "set"]

\* the user scrolls a pane to another position; the browser owes the pane a
\* scroll event
UserScroll ==
    /\ Mounted
    /\ \E pane \in Panes : \E top \in 0..ScrollMax(scroll, pane) :
          /\ top # ScrollTop(scroll, pane)
          /\ scroll' = WriteScrollTop(scroll, pane, top)
          /\ Observe("userScroll", <<pane>>, FALSE)
    /\ UNCHANGED <<markdown, historyRef, lastSavedMarkdown, historyTimeoutRef,
                   autoSaveTimeoutRef, localStorage, fileName, readers, toast,
                   viewer, share, shortenCalls, searchVars>>

\* a scroll event that is due is dispatched: onScroll={() => handleScroll(source)}
ScrollEvent ==
    /\ Mounted
    /\ \E source \in scroll.events :
          LET sc == [scroll EXCEPT !.events = @ \ {source}]
              den == IF ScrollMax(sc, source) > 0 THEN ScrollMax(sc, source) ELSE 1
          IN  /\ \E top \in ScrollTopWrites(ScrollTop(sc, source) *
                                            ScrollMax(sc, OtherPane(source)), den) :
                    scroll' = handleScroll(sc, source, top)
              /\ Observe("scrollEvent", <<source>>,
                         scroll.syncSourceRef \notin {"null", source})
    /\ UNCHANGED <<markdown, historyRef, lastSavedMarkdown, historyTimeoutRef,
                   autoSaveTimeoutRef, localStorage, fileName, readers, toast,
                   viewer, share, shortenCalls, searchVars>>

\* the content or the size of the panes changes: both scrollable ranges take
\* new values, a scrollTop beyond its new range is brought back into it, and a
\* pane that has moved so is owed a scroll event
Reflow ==
    /\ Mounted
    /\ \E em \in 0..MaxEditorScroll : \E pm \in 0..MaxPreviewScroll :
          LET et == IF scroll.editor > em THEN em ELSE scroll.editor
              pt == IF scroll.preview > pm THEN pm ELSE scroll.preview
              ranged == [scroll EXCEPT !.editorMax = em, !.previewMax = pm]
          IN  /\ <<em, pm>> # <<scroll.editorMax, scroll.previewMax>>
              /\ scroll' = WriteScrollTop(WriteScrollTop(ranged, "editor", et),
                                          "preview", pt)
    /\ UNCHANGED <<markdown, historyRef, lastSavedMarkdown, historyTimeoutRef,
                   autoSaveTimeoutRef, localStorage, fileName, readers, toast,
                   viewer, share, shortenCalls, searchVars>>
    /\ Observe("reflow", NoText, FALSE)

\* 50 ms pass since the release timer was set
SyncTimerElapses ==
    /\ scroll.syncTimeoutRef = "set"
    /\ scroll' = [scroll EXCEPT !.syncTimeoutRef = "due"]
    /\ UNCHANGED <<markdown, historyRef, lastSavedMarkdown, historyTimeoutRef,
                   autoSaveTimeoutRef, localStorage, fileName, readers, toast,
                   viewer, share, shortenCalls, searchVars>>
    /\ Observe("syncTimerElapses", NoText, FALSE)

\* the release timer fires: syncSourceRef.current = null
SyncTimerFire ==
    /\ scroll.syncTimeoutRef = "due"
    /\ scroll' = [scroll EXCEPT !.syncSourceRef = "null", !.syncTimeoutRef = "none"]
    /\ UNCHANGED <<markdown, historyRef, lastSavedMarkdown, historyTimeoutRef,
                   autoSaveTimeoutRef, localStorage, fileName, readers, toast,
                   viewer, share, shortenCalls, searchVars>>
    /\ Observe("syncTimer", NoText, FALSE)

\* the observers a specification keeps, the others resting
WatchAll ==
    /\ WatchScn /\ WatchBurst /\ WatchLineage /\ WatchSaves /\ WatchStale
    /\ WatchRace /\ WatchTrip
WatchHistory == WatchScn /\ WatchBurst /\ UNCHANGED <<lineage, saves, stale, race, trip>>
WatchImport == WatchLineage /\ UNCHANGED <<scn, burst, saves, stale, race, trip>>
WatchPersist == WatchSaves /\ UNCHANGED <<scn, burst, lineage, stale, race, trip>>
WatchShare == WatchStale /\ UNCHANGED <<scn, burst, lineage, saves, race, trip>>
WatchTimers == WatchRace /\ WatchTrip /\ UNCHANGED <<scn, burst, lineage, saves, stale>>
WatchNone == UNCHANGED <<scn, burst, lineage, saves, stale, race, trip>>

\* every handler of the session
Next ==
    \/ Typing /\ WatchAll
    \/ HistoryTimerFire /\ WatchAll
    \/ AutoSaveTimerFire /\ WatchAll
    \/ handleUndo /\ WatchAll
    \/ handleRedo /\ WatchAll
    \/ Toolbar /\ WatchAll
    \/ OpenFile /\ WatchAll
    \/ ReadCompletes /\ WatchAll
    \/ ReadFails /\ WatchAll
    \/ AutoSaveTimerFail /\ WatchAll
    \/ OpenShareLink /\ WatchNone
    \/ OpenLink /\ WatchNone
    \/ ToggleSearch /\ WatchNone
    \/ FindType /\ WatchNone
    \/ SearchEffect /\ WatchNone
    \/ UserScroll /\ WatchNone
    \/ Reflow /\ WatchNone
    \/ ScrollEvent /\ WatchNone
    \/ SyncTimerElapses /\ WatchNone
    \/ SyncTimerFire /\ WatchNone
    \/ ShareButton /\ WatchAll
    \/ ShortenSettles /\ WatchAll
    \/ CloseShareModal /\ WatchAll

Spec == Init /\ [][Next]_vars

\* The claims are checked under the parts of Spec below.  Each part takes its
\* steps from Next, so each of its behaviours is a behaviour of the session.

\* editing and history: typing, toolbar snippets, the history timer, undo, redo
NextHistory ==
    \/ Typing /\ WatchHistory
    \/ HistoryTimerFire /\ WatchHistory
    \/ handleUndo /\ WatchHistory
    \/ handleRedo /\ WatchHistory
    \/ Toolbar /\ WatchHistory

SpecHistory == Init /\ [][NextHistory]_vars

\* import: typing, both timers, undo and the file readers
NextImport ==
    \/ Typing /\ WatchImport
    \/ HistoryTimerFire /\ WatchImport
    \/ AutoSaveTimerFire /\ WatchImport
    \/ handleUndo /\ WatchImport
    \/ OpenFile /\ WatchImport
    \/ ReadCompletes /\ WatchImport
    \/ ReadFails /\ WatchImport

SpecImport == Init /\ [][NextImport]_vars

\* the history cap: from a fresh session, one new value after the other is typed
\* and committed
TextOf(k) == [i \in 1..k |-> "x"]

CapIndex(t) ==
    IF t # NoText /\ Len(t) >= 1 /\ \A i \in 1..Len(t) : t[i] = "x" THEN Len(t) ELSE 0

CapType ==
    /\ ~historyTimeoutRef.pending
    /\ CapIndex(markdown) < MaxCapCommits
    /\ onMarkdownChange(TextOf(CapIndex(markdown) + 1))

NextCap ==
    \/ CapType /\ WatchNone
    \/ HistoryTimerFire /\ WatchNone

SpecCap == Init /\ [][NextCap]_vars

\* the same run with undo() and redo() between the bursts, future holding at
\* most MaxCapUndo snapshots, and with the import of a file once past and
\* future hold 50 snapshots
NextCapUndo ==
    \/ CapType /\ WatchNone
    \/ HistoryTimerFire /\ WatchNone
    \/ ~historyTimeoutRef.pending /\ Len(historyRef.future) < MaxCapUndo
          /\ handleUndo /\ WatchNone
    \/ ~historyTimeoutRef.pending /\ handleRedo /\ WatchNone
    \/ Len(historyRef.past) + Len(historyRef.future) = HistoryCap
          /\ ~historyTimeoutRef.pending /\ readers = <<>> /\ OpenFile /\ WatchNone
    \/ ~historyTimeoutRef.pending /\ ReadCompletes /\ WatchNone

SpecCapUndo == Init /\ [][NextCapUndo]_vars

\* the draft: typing, undo, redo and both timers, the draft write succeeding or failing
NextPersist ==
    \/ Typing /\ WatchPersist
    \/ HistoryTimerFire /\ WatchPersist
    \/ handleUndo /\ WatchPersist
    \/ handleRedo /\ WatchPersist
    \/ AutoSaveTimerFire /\ WatchPersist
    \/ AutoSaveTimerFail /\ WatchPersist

SpecPersist == Init /\ [][NextPersist]_vars

\* the draft catching up: every kind of buffer change and both timers, every
\* draft write succeeding; the user types and uses the toolbar while the
\* history is empty, and opens one file at a time.  A pending auto-save timer
\* that nothing restarts fires after 1000 ms, which is what the fairness
\* condition says of it.
NextAutoSave ==
    \/ historyRef = EmptyHistory /\ Typing /\ WatchNone
    \/ historyRef = EmptyHistory /\ Toolbar /\ WatchNone
    \/ HistoryTimerFire /\ WatchNone
    \/ handleUndo /\ WatchNone
    \/ handleRedo /\ WatchNone
    \/ readers = <<>> /\ OpenFile /\ WatchNone
    \/ ReadCompletes /\ WatchNone
    \/ AutoSaveTimerFire /\ WatchNone

SpecAutoSave ==
    Init /\ [][NextAutoSave]_vars /\ WF_vars(AutoSaveTimerFire /\ WatchNone)

\* the two debounce timers: typing, undo, redo, and the timers firing in
\* either order
NextTimers ==
    \/ Typing /\ WatchTimers
    \/ handleUndo /\ WatchTimers
    \/ handleRedo /\ WatchTimers
    \/ HistoryTimerFire /\ WatchTimers
    \/ AutoSaveTimerFire /\ WatchTimers

SpecTimers == Init /\ [][NextTimers]_vars

\* the session start and the first edits of the mounted editor
NextStart ==
    \/ Mounted /\ Typing /\ WatchNone
    \/ Mounted /\ HistoryTimerFire /\ WatchNone
    \/ Mounted /\ AutoSaveTimerFire /\ WatchNone
    \/ Mounted /\ handleUndo /\ WatchNone

SpecStart == InitStart /\ [][NextStart]_vars

\* wrap insertion: the wrap buttons of the toolbar, with every selection of the buffer
WrapTemplates == {BoldSyntax, ItalicSyntax, LinkSyntax}

WrapButton ==
    /\ MayEdit
    /\ Len(markdown) <= MaxWrapBase
    /\ \E syntax \in WrapTemplates :
          \E start \in 0..Len(markdown) : \E end \in start..Len(markdown) :
             insertSnippet(syntax, "wrap", start, end)

NextWrap ==
    \/ Typing /\ WatchNone
    \/ HistoryTimerFire /\ WatchNone
    \/ WrapButton /\ WatchNone

SpecWrap == Init /\ [][NextWrap]_vars

\* sharing: texts over two characters are typed, and the link of the buffer is
\* opened in the Viewer
CodecChars == {"a", "|"}
CodecTexts == UNION {[1..n -> CodecChars] : n \in 0..MaxCodecLen}

CodecType == \E t \in CodecTexts : onMarkdownChange(t)

NextCodec ==
    \/ CodecType /\ WatchNone
    \/ OpenShareLink /\ WatchNone

SpecCodec == Init /\ [][NextCodec]_vars

\* the Viewer: a page is loaded from a link, with every value of the c parameter
NextViewer ==
    \/ viewer = ViewerInitial /\ OpenLink /\ WatchNone

SpecViewer == Init /\ [][NextViewer]_vars

\* search, in a session that starts without a draft: the Find input is opened,
\* the buffer and the Find input are typed into, and the search effect runs
\* after the render that changed one of them, before the next event
SearchIdle == localStorage = NoText /\ ~SearchEffectPending

NextSearch ==
    \/ SearchIdle /\ SearchType /\ WatchNone
    \/ SearchIdle /\ ~searchState.isOpen /\ ToggleSearch /\ WatchNone
    \/ SearchIdle /\ FindFillOrClear /\ WatchNone
    \/ SearchEffect /\ WatchNone

SpecSearch == Init /\ [][NextSearch]_vars

\* scrolling: the user scrolls either pane, the layout changes, the scroll
\* events are dispatched, time passes and the release timer fires
NextScroll ==
    \/ UserScroll /\ WatchNone
    \/ Reflow /\ WatchNone
    \/ ScrollEvent /\ WatchNone
    \/ SyncTimerElapses /\ WatchNone
    \/ SyncTimerFire /\ WatchNone

SpecScroll == Init /\ [][NextScroll]_vars

\* the same, where the browser dispatches every scroll event it owes, time
\* passes and a timer that is due fires
SpecScrollFair ==
    /\ SpecScroll
    /\ WF_vars(ScrollEvent /\ WatchNone)
    /\ WF_vars(SyncTimerElapses /\ WatchNone)
    /\ WF_vars(SyncTimerFire /\ WatchNone)

\* sharing: one edit of the buffer, the Share Link button, the shortening calls
\* and the dialog
NextShare ==
    \/ ~historyTimeoutRef.pending /\ Typing /\ WatchShare
    \/ ShareButton /\ WatchShare
    \/ ShortenSettles /\ WatchShare
    \/ CloseShareModal /\ WatchShare

SpecShare == Init /\ [][NextShare]_vars

-----------------------------------------------------------------------------
(* The claims *)

Last(s) == s[Len(s)]
Front(s) == SubSeq(s, 1, Len(s) - 1)

\* one push onto past, the oldest snapshot leaving beyond the cap
OnePush(p, x) ==
    LET q == Append(p, x) IN IF Len(q) > HistoryCap THEN Tail(q) ELSE q

\* C1 as stated: after setText(a), commit, setText(b), commit, undo() the buffer
\* is a, and after a following redo() it is b, for any a and b.
C1_UndoRedoInverse ==
    /\ scn.phase = 5 => markdown = scn.a
    /\ scn.phase = 6 => markdown = scn.b

\* C1 amended: after setText(a), commit, setText(b), commit, undo() with a # b
\* the buffer is a, and after a following redo() it is b.
C1_UndoRedoInverseDistinct ==
    scn.a # scn.b =>
        /\ scn.phase = 5 => markdown = scn.a
        /\ scn.phase = 6 => markdown = scn.b

C1_Witness == scn.phase = 6 /\ scn.a # scn.b /\ markdown = scn.b

\* C2 as stated: a burst of setText calls leaves history and checkpoint alone
\* while its timer is pending, and exactly one snapshot is pushed onto past
\* when the timer of its last call fires.
C2_BurstOneCheckpoint ==
    /\ burst.st = "typing" =>
          historyRef = burst.hist0 /\ lastSavedMarkdown = burst.ckpt
    /\ burst.st = "done" =>
          historyRef.past = OnePush(burst.hist0.past, burst.ckpt)

\* C2 amended: a burst of setText calls leaves history and checkpoint alone
\* while its timer is pending; when the timer of its last call fires, exactly
\* one snapshot (the checkpoint before the burst) is pushed onto past if the
\* last value differs from that checkpoint, and none if it equals it.
C2_BurstAtMostOneCheckpoint ==
    /\ burst.st = "typing" =>
          historyRef = burst.hist0 /\ lastSavedMarkdown = burst.ckpt
    /\ burst.st = "done" =>
          IF markdown # burst.ckpt
          THEN /\ historyRef.past = OnePush(burst.hist0.past, burst.ckpt)
               /\ lastSavedMarkdown = markdown
          ELSE /\ historyRef = burst.hist0
               /\ lastSavedMarkdown = burst.ckpt

C2_Witness ==
    /\ burst.st = "done"
    /\ burst.many
    /\ markdown # burst.ckpt
    /\ Len(historyRef.past) = Len(burst.hist0.past) + 1

\* the snapshots pushed by committing TextOf(1), ..., TextOf(n) from a fresh session
CapPushed(n) ==
    IF n = 0 THEN <<>>
    ELSE <<InitialMarkdown(localStorage)>> \o [i \in 1..(n - 1) |-> TextOf(i)]

\* C3: once n pairwise distinct values have been committed one after the other
\* from a fresh session, past holds the most recent min(n, 50) snapshots in commit
\* order; after 60 commits these are 50, the 10 oldest having left first.
C3_HistoryCap ==
    ~historyTimeoutRef.pending =>
        LET n == CapIndex(lastSavedMarkdown)
            keep == Min(n, HistoryCap)
        IN  /\ historyRef.past = SubSeq(CapPushed(n), n - keep + 1, n)
            /\ n = 60 => Len(historyRef.past) = 50 /\ historyRef.past[1] = TextOf(10)

C3_Witness ==
    /\ ~historyTimeoutRef.pending
    /\ CapIndex(lastSavedMarkdown) = 60
    /\ Len(historyRef.past) = 50
    /\ historyRef.past[1] = TextOf(10)
    /\ historyRef.past[50] = TextOf(59)

\* C4: a commit that records a snapshot, by the history timer or by
\* insertSnippet, leaves future empty, so a redo() right after it changes nothing.
C4_CommitClearsFuture ==
    (lastOp \in {"historyTimer", "insertSnippet"} /\ lastFlag) =>
        /\ historyRef.future = <<>>
        /\ RedoResult(historyRef, lastSavedMarkdown, markdown)
              = [h |-> historyRef, saved |-> lastSavedMarkdown, buf |-> markdown]

C4_Witness ==
    /\ lastOp = "historyTimer"
    /\ lastFlag
    /\ burst.st = "done"
    /\ burst.hist0.future # <<>>
    /\ historyRef.future = <<>>

\* C5: when an import completes, past and future are empty and checkpoint and
\* buffer are the imported text, so undo() and redo() right after it leave the
\* buffer equal to the imported text.
C5_ImportReset ==
    lastOp = "importLoad" =>
        /\ historyRef = EmptyHistory
        /\ lastSavedMarkdown = lastArg
        /\ markdown = lastArg
        /\ UndoResult(historyRef, lastSavedMarkdown, markdown).buf = lastArg
        /\ RedoResult(historyRef, lastSavedMarkdown, markdown).buf = lastArg

C5_Witness ==
    /\ lastOp = "importLoad"
    /\ markdown = lastArg
    /\ historyRef = EmptyHistory
    /\ historyTimeoutRef.pending

\* C6: after an import has completed, the buffer only ever holds the imported
\* text or a text an edit has put there since; no undo, redo or timer brings
\* back a text the buffer held only before the import.
C6_FreshLineage == lineage.imported => markdown \in lineage.vals

\* C7 as stated: right after an import completes, the draft stored under the
\* fixed key is the imported text.
C7_ImportWritesDraftNow == lastOp = "importLoad" => localStorage = lastArg

\* C7 amended: an import does not write the draft itself: the step that
\* completes it leaves the stored draft as it was and, when the imported text
\* differs from the buffer it replaces, leaves the auto-save timer pending; the
\* draft becomes the imported text when that timer fires.
C7_ImportDraftDebounced ==
    [][lastOp' = "importLoad" =>
          /\ localStorage' = localStorage
          /\ markdown' # markdown => autoSaveTimeoutRef']_vars

C7_Witness ==
    /\ lastOp = "importLoad"
    /\ markdown = lastArg
    /\ localStorage # lastArg
    /\ localStorage # NoText
    /\ autoSaveTimeoutRef

\* C8 as stated: the completion of an import that a later started import has
\* overtaken changes neither buffer nor checkpoint nor file name.
C8_OlderImportDiscarded ==
    [][(lastOp' = "importLoad" /\ lastFlag') =>
          UNCHANGED <<markdown, lastSavedMarkdown, fileName>>]_vars

\* C8 amended: imports take effect in the order in which their reads complete:
\* the completion of an import that a later started import has overtaken
\* replaces buffer, checkpoint and file name with its own.
C8_LastCompletionWins ==
    (lastOp = "importLoad" /\ lastFlag) =>
        /\ markdown = lastArg
        /\ lastSavedMarkdown = lastArg
        /\ fileName \in {StripExtension(f.name) :
                            f \in {g \in Files : AllowedType(g.name) /\ g.content = lastArg}}

C8_Witness ==
    /\ lastOp = "importLoad"
    /\ lastFlag
    /\ markdown = lastArg
    /\ fileName = <<"n">>

\* C9: an import that is rejected for its type or whose read fails publishes an
\* error notice and changes neither buffer nor past nor future nor checkpoint
\* nor file name nor the persisted draft.
C9_FailedImportChangesNothing ==
    [][lastOp' \in {"rejectFile", "readError"} =>
          /\ toast'.kind = "error"
          /\ UNCHANGED <<markdown, historyRef, lastSavedMarkdown, fileName, localStorage>>]_vars

C9_Witness ==
    /\ lastOp = "readError"
    /\ toast = [kind |-> "error", msg |-> "Failed to read file."]
    /\ historyRef.past # <<>>

\* C10: undo() on a non-empty past pops its top, pushes the live buffer onto
\* future and makes the popped value the buffer, redo() likewise with past and
\* future exchanged; on an empty stack each leaves buffer, past, future and
\* checkpoint as they are.
C10_UndoRedoFrame ==
    [][/\ lastOp' = "undo" =>
            IF historyRef.past = <<>>
            THEN UNCHANGED <<markdown, historyRef, lastSavedMarkdown>>
            ELSE /\ markdown' = Last(historyRef.past)
                 /\ historyRef'.past = Front(historyRef.past)
                 /\ historyRef'.future = Append(historyRef.future, markdown)
       /\ lastOp' = "redo" =>
            IF historyRef.future = <<>>
            THEN UNCHANGED <<markdown, historyRef, lastSavedMarkdown>>
            ELSE /\ markdown' = Last(historyRef.future)
                 /\ historyRef'.future = Front(historyRef.future)
                 /\ historyRef'.past = Append(historyRef.past, markdown)]_vars

C10_Witness ==
    /\ lastOp = "undo"
    /\ historyRef.future # <<>>
    /\ markdown # Last(historyRef.future)
    /\ historyTimeoutRef.pending

\* C11: setText(newText) makes newText the buffer at once and leaves its 500 ms
\* timer pending; the call itself changes neither past nor future nor the
\* checkpoint, and they stay as they were before the first call of a burst for
\* as long as the burst's timer is pending.
C11_SetTextOnlySchedules ==
    /\ [](burst.st = "typing" =>
            historyRef = burst.hist0 /\ lastSavedMarkdown = burst.ckpt)
    /\ [][lastOp' = "setText" =>
            /\ markdown' = lastArg'
            /\ historyTimeoutRef' = [pending |-> TRUE, newVal |-> lastArg']
            /\ UNCHANGED <<historyRef, lastSavedMarkdown>>]_vars

C11_Witness ==
    /\ lastOp = "setText"
    /\ markdown = lastArg
    /\ historyTimeoutRef.pending
    /\ lastSavedMarkdown # markdown
    /\ historyRef.future # <<>>

\* C12: when the history timer of a burst fires, the text the buffer held before
\* the burst is pushed onto past if and only if the committed value differs from
\* the checkpoint; when it does not differ, past, future and checkpoint are unchanged.
C12_TimerCommitsPreEditBuffer ==
    (burst.st = "done" /\ burst.buf0 # NoText) =>
        IF lastArg # burst.ckpt
        THEN /\ historyRef.past = OnePush(burst.hist0.past, burst.buf0)
             /\ lastSavedMarkdown = lastArg
        ELSE /\ historyRef = burst.hist0
             /\ lastSavedMarkdown = burst.ckpt

\* C13: right after an insertSnippet whose result differs from the checkpoint,
\* the checkpoint is the new buffer and the previous checkpoint is on top of
\* past, no timer having fired; the timer the call scheduled pushes no second
\* snapshot when it fires.
C13_SnippetCommitsAtOnce ==
    [][/\ (lastOp' = "insertSnippet" /\ markdown' # lastSavedMarkdown) =>
            /\ lastSavedMarkdown' = markdown'
            /\ historyRef'.past = OnePush(historyRef.past, lastSavedMarkdown)
       /\ (burst.st = "snippet" /\ lastOp' = "historyTimer") =>
            UNCHANGED <<historyRef, lastSavedMarkdown>>]_vars

\* what stands before and after the placeholder token in each wrap template
WrapPrefix(syntax) ==
    CASE syntax = BoldSyntax -> <<"*", "*">>
      [] syntax = ItalicSyntax -> <<"*">>
      [] syntax = LinkSyntax -> LinkSyntax

WrapSuffix(syntax) ==
    CASE syntax = BoldSyntax -> <<"*", "*">>
      [] syntax = ItalicSyntax -> <<"*">>
      [] syntax = LinkSyntax -> <<>>

\* C14: for every wrap template and every selection [start, end) of a buffer
\* the wrap buttons are used on, the text insertSnippet computes keeps the
\* characters before start and from end on as they are and has prefix + content
\* + suffix between them, where content is the selected text, or the default
\* word when nothing is selected; the caret it reports is the offset just after
\* the suffix.
C14_WrapInsertion ==
    Len(markdown) <= MaxWrapBase =>
    \A syntax \in WrapTemplates :
      \A start \in 0..Len(markdown) : \A end \in start..Len(markdown) :
        LET r == SnippetResult(markdown, syntax, "wrap", start, end)
            content == IF start < end THEN SubSeq(markdown, start + 1, end)
                       ELSE DefaultWord
            middle == WrapPrefix(syntax) \o content \o WrapSuffix(syntax)
        IN  /\ SubSeq(r.content, 1, start) = SubSeq(markdown, 1, start)
            /\ SubSeq(r.content, start + 1, start + Len(middle)) = middle
            /\ SubSeq(r.content, start + Len(middle) + 1, Len(r.content))
                  = SubSeq(markdown, end + 1, Len(markdown))
            /\ r.cursor = start + Len(middle)

C14_Witness ==
    /\ lastOp = "insertSnippet"
    /\ markdown = lastArg
    /\ markdown = <<"*", "*", "*", "a", "*", "*", "*">>
    /\ historyRef.past = <<<<"a">>, <<"*", "a", "*">>>>

\* C15: buffer changes that arrive while the 1000 ms timer is pending write
\* nothing and leave one timer pending; the draft is written only when that
\* timer fires, once, with the buffer as the last change left it, and no
\* further write follows until the buffer changes again.
C15_DraftWriteCoalesced ==
    /\ [](saves \in {"wroteOne", "wroteMany"} =>
            localStorage = markdown /\ ~autoSaveTimeoutRef)
    /\ [][/\ markdown' # markdown =>
               localStorage' = localStorage /\ autoSaveTimeoutRef'
          /\ localStorage' # localStorage => lastOp' = "autoSave"
          /\ lastOp' = "autoSave" =>
               /\ autoSaveTimeoutRef /\ ~autoSaveTimeoutRef'
               /\ markdown' = markdown
               /\ localStorage' = markdown
          /\ (~autoSaveTimeoutRef /\ autoSaveTimeoutRef') => markdown' # markdown]_vars

C15_Witness ==
    /\ saves = "wroteMany"
    /\ lastOp = "autoSave"
    /\ localStorage = markdown
    /\ markdown \in Typed
    /\ historyTimeoutRef.pending

C17_InitialBufferIsDraft ==
    (lastOp = "init" /\ localStorage # StorageDenied) =>
        markdown = IF localStorage # NoText THEN localStorage ELSE DEFAULT_MARKDOWN

\* C18: when reading the draft fails at session start, the editor is mounted
\* all the same, with the default document as its buffer.
C18_ReadFailureFallsBack ==
    localStorage = StorageDenied => Mounted /\ markdown = DEFAULT_MARKDOWN

\* C19: a draft write that fails changes neither buffer nor past nor future nor
\* checkpoint nor the stored draft and leaves no auto-save timer pending; after
\* it an edit is taken as ever and starts the timer again, and while the buffer
\* does not change no timer is started and nothing is written.
C19_WriteFailureSwallowed ==
    [][/\ lastOp' = "autoSaveFailed" =>
            /\ UNCHANGED <<markdown, historyRef, lastSavedMarkdown, historyTimeoutRef,
                           localStorage>>
            /\ ~autoSaveTimeoutRef'
       /\ (saves = "failed" /\ lastOp' = "setText") =>
            /\ markdown' = lastArg'
            /\ historyTimeoutRef'.pending
       /\ (saves = "failed" /\ markdown' # markdown) => autoSaveTimeoutRef'
       /\ (saves = "failed" /\ markdown' = markdown) =>
            /\ ~autoSaveTimeoutRef'
            /\ localStorage' = localStorage]_vars

C19_Witness ==
    /\ saves = "failed"
    /\ lastOp = "historyTimer"
    /\ lastFlag
    /\ localStorage # markdown
    /\ ~autoSaveTimeoutRef

\* C20 as stated: every text, the empty text included, comes back from
\* decompressMarkdown(compressMarkdown(t)) as it was
C20_RoundTripEveryText ==
    Mounted => decompressMarkdown(compressMarkdown(markdown)) =
                   [kind |-> "text", text |-> markdown]

\* C20, amended: every non-empty text comes back from
\* decompressMarkdown(compressMarkdown(t)) as it was, also when the link that
\* carries it is opened in the Viewer, where its "+" arrive as spaces; the empty
\* text is encoded as the empty string, which decodes to null and which the
\* Viewer reports as an empty link
C20_RoundTripNonEmptyText ==
    Mounted =>
        /\ markdown # EmptyText =>
              /\ decompressMarkdown(compressMarkdown(markdown)) =
                     [kind |-> "text", text |-> markdown]
              /\ decompressMarkdown(QueryValue(compressMarkdown(markdown))) =
                     [kind |-> "text", text |-> markdown]
              /\ lastOp = "openLink" =>
                     viewer = [content |-> markdown, loading |-> FALSE, error |-> NoError]
        /\ markdown = EmptyText =>
              /\ compressMarkdown(markdown) = EmptyText
              /\ decompressMarkdown(EmptyText) = [kind |-> "null", text |-> Null]
              /\ lastOp = "openLink" => viewer.error = ErrEmpty /\ viewer.content = EmptyText

\* a text whose encoding holds a "+" has been shared and opened
C20_Witness ==
    /\ lastOp = "openLink"
    /\ markdown = <<"a", "a", "|">>
    /\ compressMarkdown(markdown) = <<"I", "b", "A", "+", "Q">>
    /\ lastArg = <<"I", "b", "A", " ", "Q">>
    /\ viewer.content = markdown

\* the buffers of a session in which the user only types
ShareTexts == Typed \cup {InitialMarkdown(d) : d \in Drafts}

\* the c parameter of a link made from origin
ReferenceOf(url, origin) == SubSeq(url, Len(origin) + Len(ViewPath) + 1, Len(url))

\* the dialog shows shareUrl as the link to copy
LinkPresented ==
    share.isShareModalOpen /\ ~share.isShortening /\ ~share.isUrlTooLarge

\* C21: a share request whose link is within MAX_SHAREABLE_URL_LENGTH sets the
\* whole link origin/#/view?c=compressMarkdown(buffer) as shareUrl with the
\* too-large flag off; a request over the threshold changes neither before its
\* shortening call settles, and when that call fails the too-large flag is on
\* and shareUrl is the whole link; the link the dialog presents is always a
\* whole link of some buffer or what the shortening service returned
C21_ShareEscalation ==
    /\ [](LinkPresented =>
            \/ share.shareUrl \in ShortUrls
            \/ \E origin \in PageOrigins : \E t \in ShareTexts :
                  share.shareUrl = GeneratedUrl(origin, t))
    /\ [][/\ (lastOp' = "share" /\ ~lastFlag') =>
                /\ Len(lastArg') <= MAX_SHAREABLE_URL_LENGTH
                /\ share'.shareUrl = lastArg'
                /\ ~share'.isUrlTooLarge
                /\ share'.isShareModalOpen
                /\ \E origin \in PageOrigins :
                      /\ lastArg' = origin \o ViewPath \o compressMarkdown(markdown)
                      /\ decompressMarkdown(ReferenceOf(lastArg', origin)) =
                             [kind |-> "text", text |-> markdown]
                /\ shortenCalls' = shortenCalls
          /\ (lastOp' = "share" /\ lastFlag') =>
                /\ Len(lastArg') > MAX_SHAREABLE_URL_LENGTH
                /\ share'.shareUrl = share.shareUrl
                /\ share'.isUrlTooLarge = share.isUrlTooLarge
                /\ share'.isShortening /\ share'.isShareModalOpen
                /\ shortenCalls' = Append(shortenCalls,
                                          [generatedUrl |-> lastArg', pending |-> TRUE])
          /\ lastOp' = "shortenFailed" =>
                /\ share'.isUrlTooLarge
                /\ share'.shareUrl = lastArg'
                /\ Len(lastArg') > MAX_SHAREABLE_URL_LENGTH
                /\ \E origin \in PageOrigins :
                      lastArg' = origin \o ViewPath \o ReferenceOf(lastArg', origin)
                      /\ decompressMarkdown(ReferenceOf(lastArg', origin)).kind = "text"
       ]_vars

\* the shortening of a link over the threshold has failed, and the dialog
\* offers the fallback for the whole link
C21_Witness ==
    /\ lastOp = "shortenFailed"
    /\ ~lastFlag
    /\ share.isShareModalOpen /\ share.isUrlTooLarge /\ ~share.isShortening
    /\ share.shareUrl = GeneratedUrl(LongOrigin, markdown)
    /\ Len(share.shareUrl) > MAX_SHAREABLE_URL_LENGTH

\* C22: when shortenUrl resolves to a URL that is itself over
\* MAX_SHAREABLE_URL_LENGTH, the share result is too large, not a short link
C22_OverlongShortUrlIsTooLarge ==
    (lastOp = "shortened" /\ Len(share.shareUrl) > MAX_SHAREABLE_URL_LENGTH) =>
        share.isUrlTooLarge

\* C23: the result of a shortening call whose dialog has been closed, or which
\* a newer share request has overtaken with its own result, changes neither
\* the link of the dialog nor the too-large flag
C23_StaleResultDiscarded ==
    [][(lastOp' \in {"shortened", "shortenFailed"} /\ lastFlag') =>
          /\ share'.shareUrl = share.shareUrl
          /\ share'.isUrlTooLarge = share.isUrlTooLarge]_vars

\* the value decompresses to a document
Decodes(encoded) ==
    LET decoded == decompressMarkdown(encoded)
    IN  decoded.kind = "text" /\ decoded.text # EmptyText

\* the messages by which the Viewer reports a value as corrupt
CorruptMessages == {ErrCorrupt, ErrException}

\* C24: a link without c parameter is reported as absent, an empty value as
\* empty, and a non-empty value that does not decompress to a document as
\* corrupt; the messages of the three reasons are pairwise distinct
C24_ThreeFailureReasons ==
    lastOp = "openLink" =>
        /\ lastArg = Null => viewer.error = ErrAbsent
        /\ lastArg = EmptyText => viewer.error = ErrEmpty
        /\ (lastArg \notin {Null, EmptyText} /\ ~Decodes(lastArg)) =>
              viewer.error \in CorruptMessages
        /\ ErrAbsent # ErrEmpty
        /\ {ErrAbsent, ErrEmpty} \cap CorruptMessages = {}

\* the values that e becomes when some of its "+" arrive as spaces
SpaceVariants(e) ==
    {v \in [1..Len(e) -> QueryChars] :
        \A i \in 1..Len(e) : v[i] = e[i] \/ (e[i] = "+" /\ v[i] = " ")}

\* C25: a value gives the same outcome, the same document or the same failure,
\* whichever of its "+" arrive as spaces
C25_SpacesReadAsPlus ==
    (lastOp = "openLink" /\ lastArg # Null) =>
        \A v \in SpaceVariants(lastArg) : ViewerAfter(ViewerInitial, v) = viewer

\* the offset in the text at which item k of a pattern is matched when the
\* match starts at offset p: "^" and "$" take no character
ItemOffset(term, p, k) ==
    p + Cardinality({j \in 1..(k - 1) : term[j] \notin {"^", "$"}})

\* the pattern term occurs in text at offset p
OccursAt(text, term, matchCase, p) ==
    \A k \in 1..Len(term) :
        LET at == ItemOffset(term, p, k)
        IN  IF term[k] = "^" THEN at = 0
            ELSE IF term[k] = "$" THEN at = Len(text)
            ELSE /\ at < Len(text)
                 /\ IF term[k] = "." THEN text[at + 1] # "\n"
                    ELSE IF matchCase THEN text[at + 1] = term[k]
                    ELSE FoldCase(text[at + 1]) = FoldCase(term[k])

\* spans are the occurrences of term in text that a scan from left to right finds
ScanResult(text, term, matchCase, spans) ==
    /\ \A i \in 1..Len(spans) :
          /\ 0 <= spans[i].start /\ spans[i].start <= spans[i].end
          /\ spans[i].end <= Len(text)
          /\ OccursAt(text, term, matchCase, spans[i].start)
          /\ spans[i].end = ItemOffset(term, spans[i].start, Len(term) + 1)
    /\ \A i \in 1..(Len(spans) - 1) :
          /\ spans[i].start < spans[i + 1].start
          /\ spans[i].end <= spans[i + 1].start
    /\ \A p \in 0..Len(text) :
          OccursAt(text, term, matchCase, p) =>
              \E i \in 1..Len(spans) :
                  \/ spans[i].start = p
                  \/ spans[i].start < p /\ p < spans[i].end

GhostText == <<"g", "h", "o", "s", "t", " ", "g", "h", "o", "s", "t", " ", "b", "o", "o">>

\* C26: for a well-formed, non-empty query and either case flag, performSearch
\* returns the occurrences of the query that a scan from left to right finds,
\* as spans within the text in strictly ascending order that do not overlap;
\* the search effect stores them as the results; "ghost" without regard to case
\* is found in "ghost ghost boo" at {0,5} and {6,11}, "GHOST" with regard to
\* case nowhere
C26_SearchCorrect ==
    /\ (Mounted /\ searchState.searchTerm # EmptyText /\ ~Malformed(searchState.searchTerm)) =>
          \A matchCase \in BOOLEAN :
              ScanResult(markdown, searchState.searchTerm, matchCase,
                         performSearch(markdown, searchState.searchTerm, matchCase))
    /\ lastOp = "searchEffect" =>
          searchState.results =
              performSearch(markdown, searchState.searchTerm, searchState.matchCase)
    /\ performSearch(GhostText, <<"g", "h", "o", "s", "t">>, FALSE) =
          <<[start |-> 0, end |-> 5], [start |-> 6, end |-> 11]>>
    /\ performSearch(GhostText, <<"G", "H", "O", "S", "T">>, TRUE) = <<>>

\* a query of two characters has been searched in a buffer of three in which it
\* occurs at two overlapping places
C26_Witness ==
    /\ lastOp = "searchEffect"
    /\ markdown = <<"a", "A", "a">>
    /\ searchState.searchTerm = <<"a", "a">>
    /\ searchState.results = <<[start |-> 0, end |-> 2]>>

\* C27: for the empty query and for a malformed pattern performSearch returns
\* the empty sequence, with either case flag; the search effect then stores no
\* result and index 0, and it never touches the buffer, the history or the
\* checkpoint
C27_EmptyOrMalformedQuery ==
    /\ []((Mounted /\ (searchState.searchTerm = EmptyText \/ Malformed(searchState.searchTerm))) =>
            /\ \A matchCase \in BOOLEAN :
                  performSearch(markdown, searchState.searchTerm, matchCase) = <<>>
            /\ lastOp = "searchEffect" =>
                  searchState.results = <<>> /\ searchState.currentIndex = 0)
    /\ [][lastOp' = "searchEffect" =>
            UNCHANGED <<markdown, historyRef, lastSavedMarkdown, historyTimeoutRef>>]_vars

\* a malformed pattern has been searched in a buffer of three characters
C27_Witness ==
    /\ lastOp = "searchEffect"
    /\ searchState.searchTerm = <<"a", "(">>
    /\ Malformed(searchState.searchTerm)
    /\ markdown = <<"a", "a", "A">>
    /\ searchState.results = <<>>
    /\ historyTimeoutRef.pending

\* C28: whenever the editor pane is rendered, the spans handed to it are those
\* of the buffer, the query and the case flag it is rendered with
C28_NoStaleSpans ==
    Mounted =>
        searchState.results =
            performSearch(markdown, searchState.searchTerm, searchState.matchCase)

\* C29: a recomputation sets the current-match index to 0 if it was not less
\* than the number of new matches and leaves it otherwise, whatever the index
\* was; after a recomputation the index is 0 with no match, and less than the
\* number of matches otherwise
C29_IndexAfterRecompute ==
    /\ [](Mounted =>
            \A index \in 0..(MaxSearchLen + 2) : \A matchCase \in BOOLEAN :
                LET results == performSearch(markdown, searchState.searchTerm, matchCase)
                    before == [searchState EXCEPT !.currentIndex = index]
                    after == SearchStateAfter(before, results)
                IN  /\ after.results = results
                    /\ after.currentIndex = IF index >= Len(results) THEN 0 ELSE index
                    /\ IF Len(results) = 0 THEN after.currentIndex = 0
                       ELSE 0 <= after.currentIndex /\ after.currentIndex < Len(results))
    /\ [][lastOp' = "searchEffect" =>
            /\ searchState'.currentIndex =
                   IF searchState.currentIndex >= Len(searchState'.results) THEN 0
                   ELSE searchState.currentIndex
            /\ IF Len(searchState'.results) = 0 THEN searchState'.currentIndex = 0
               ELSE searchState'.currentIndex < Len(searchState'.results)]_vars

\* a recomputation has found three matches where there were none
C29_Witness ==
    /\ lastOp = "searchEffect"
    /\ Len(searchState.results) = 3
    /\ searchState.currentIndex = 0
    /\ searchState.searchTerm = <<".">>

\* C30: while one pane owns the sync lock, a scroll event from the other pane
\* moves neither pane, leaves the owner of the lock as it is and does not
\* restart the release timer
C30_ScrollGuard ==
    [][(lastOp' = "scrollEvent" /\ lastFlag') =>
          /\ scroll.syncSourceRef \in Panes
          /\ lastArg' = <<OtherPane(scroll.syncSourceRef)>>
          /\ scroll'.editor = scroll.editor
          /\ scroll'.preview = scroll.preview
          /\ scroll'.syncSourceRef = scroll.syncSourceRef
          /\ scroll'.syncTimeoutRef = scroll.syncTimeoutRef
          /\ scroll'.events = scroll.events \ {OtherPane(scroll.syncSourceRef)}]_vars

\* the preview's scroll event, caused by the write that followed a scroll of
\* the editor, has arrived while the editor owned the lock and its 50 ms had passed
C30_Witness ==
    /\ lastOp = "scrollEvent"
    /\ lastFlag
    /\ lastArg = <<"preview">>
    /\ scroll.syncSourceRef = "editor"
    /\ scroll.syncTimeoutRef = "due"
    /\ scroll.editor = MaxEditorScroll
    /\ scroll.preview = MaxPreviewScroll
    /\ scroll.events = {}

\* C31: the lock of a pane is given up only by the release timer, once 50 ms
\* have passed since the last scroll event of that pane; every scroll event of
\* the owner starts the 50 ms anew; and when scroll events stop the lock
\* returns to none
C31_LockRelease ==
    /\ [][/\ (scroll.syncSourceRef \in Panes
              /\ scroll'.syncSourceRef # scroll.syncSourceRef) =>
                 /\ scroll.syncTimeoutRef = "due"
                 /\ lastOp' = "syncTimer"
                 /\ scroll'.syncSourceRef = "null"
          /\ (scroll.syncTimeoutRef # "due" /\ scroll'.syncTimeoutRef = "due") =>
                 /\ scroll.syncTimeoutRef = "set"
                 /\ lastOp' = "syncTimerElapses"
          /\ (lastOp' = "scrollEvent" /\ ~lastFlag') =>
                 /\ scroll'.syncSourceRef = lastArg'[1]
                 /\ scroll'.syncTimeoutRef = "set"]_vars
    /\ ([]<>(lastOp = "scrollEvent") \/ <>[](scroll.syncSourceRef = "null"))

\* the editor's lock has been released after a scroll of the editor to the
\* bottom and the echo of the preview
C31_Witness ==
    /\ lastOp = "syncTimer"
    /\ scroll.syncSourceRef = "null"
    /\ scroll.syncTimeoutRef = "none"
    /\ scroll.editor = MaxEditorScroll
    /\ scroll.preview = MaxPreviewScroll
    /\ scroll.events = {}

\* C32: when no lock is held and a pane with a scrollable range maxA > 0
\* receives a scroll event at position p, the other pane is put at
\* (p / maxA) * maxB, less than one pixel away, so that the two panes are at
\* the same proportion of their ranges
C32_ScrollConvergence ==
    [][(/\ lastOp' = "scrollEvent"
        /\ scroll.syncSourceRef = "null"
        /\ ScrollMax(scroll, lastArg'[1]) > 0) =>
          LET A == lastArg'[1]
              B == OtherPane(A)
              p == ScrollTop(scroll, A)
              maxA == ScrollMax(scroll, A)
              maxB == ScrollMax(scroll, B)
              q == ScrollTop(scroll', B)
          IN  /\ ScrollTop(scroll', A) = p
              /\ q \in 0..maxB
              /\ q * maxA - p * maxB < maxA
              /\ p * maxB - q * maxA < maxA]_vars

\* the editor, driven to the middle of its range, has put the preview at the
\* middle of its own
C32_Witness ==
    /\ lastOp = "scrollEvent"
    /\ lastArg = <<"editor">>
    /\ ~lastFlag
    /\ scroll.editorMax = 2
    /\ scroll.previewMax = 2
    /\ scroll.editor = 1
    /\ scroll.preview = 1
    /\ scroll.syncSourceRef = "editor"

\* C33: once the user's scroll gestures (and the changes of layout) have
\* stopped, the scroll events caused by the position writes die out: the
\* session comes to rest with no lock held and no scroll event due, whether an
\* echoed event is dispatched before or after the release of the lock
C33_NoInfiniteEcho ==
    \/ []<>(lastOp \in {"userScroll", "reflow"})
    \/ <>[](scroll.syncSourceRef = "null" /\ scroll.events = {})

\* the session at rest after a scroll of the editor to the middle of its range:
\* the lock released, no scroll event due, the preview beside it
C33_Witness ==
    /\ lastOp = "syncTimer"
    /\ scroll.syncSourceRef = "null"
    /\ scroll.syncTimeoutRef = "none"
    /\ scroll.events = {}
    /\ scroll.editorMax = MaxEditorScroll
    /\ scroll.previewMax = MaxPreviewScroll
    /\ scroll.editor = 1
    /\ scroll.preview \in ScrollTopWrites(MaxPreviewScroll, MaxEditorScroll)

\* C34: from a state in which both debounce timers are pending, the history
\* timer and the auto-save timer fire in either order with the same outcome:
\* the buffer as it was, the history and the checkpoint that pushToHistory
\* makes of the pending value, the buffer as the draft; and the timer that
\* fires first leaves the other one pending as it was
C34_TimersIndependent ==
    race.on =>
        LET r == PushToHistory(race.historyRef, race.lastSavedMarkdown,
                               race.historyTimeoutRef.newVal)
        IN  /\ markdown = race.markdown
            /\ "historyTimer" \in race.fired =>
                  /\ historyRef = r.h
                  /\ lastSavedMarkdown = r.saved
                  /\ ~historyTimeoutRef.pending
            /\ "historyTimer" \notin race.fired =>
                  /\ historyRef = race.historyRef
                  /\ lastSavedMarkdown = race.lastSavedMarkdown
                  /\ historyTimeoutRef = race.historyTimeoutRef
            /\ "autoSave" \in race.fired =>
                  /\ localStorage = race.markdown
                  /\ ~autoSaveTimeoutRef
            /\ "autoSave" \notin race.fired =>
                  /\ localStorage = race.localStorage
                  /\ autoSaveTimeoutRef

\* both timers have fired, the auto-save timer first, and the history timer has
\* pushed a snapshot
C34_Witness ==
    /\ race.on
    /\ race.fired = {"historyTimer", "autoSave"}
    /\ lastOp = "historyTimer"
    /\ lastFlag
    /\ localStorage = markdown
    /\ race.localStorage # markdown

\* C35: whenever no history timer is pending, the checkpoint is the live
\* buffer, also after an undo, a redo or an import overtaken by the firing of
\* a timer that an earlier setText left pending
C35_CheckpointIsBuffer ==
    (Mounted /\ ~historyTimeoutRef.pending) => lastSavedMarkdown = markdown

\* C36: an undo() followed by a redo(), with nothing but firings of the
\* debounce timers before, between and after them, puts back the buffer the
\* undo() found, text not yet committed to the history included
C36_UndoRedoRestores ==
    trip.st = "redone" => markdown = trip.before

\* C37: past and future together never hold more than 50 snapshots, so past
\* never holds more than 50, although redo() pushes onto it without a test
C37_HistoryBounded ==
    /\ [](/\ Len(historyRef.past) + Len(historyRef.future) <= HistoryCap
          /\ Len(historyRef.past) <= HistoryCap)
    /\ [][\/ Len(historyRef'.past) + Len(historyRef'.future) =
                Len(historyRef.past) + Len(historyRef.future)
          \/ historyRef'.future = <<>>]_vars

\* a redo() has pushed the fiftieth snapshot onto past
C37_Witness ==
    /\ lastOp = "redo"
    /\ Len(historyRef.past) = HistoryCap
    /\ historyRef.future = <<>>
    /\ markdown = lastSavedMarkdown
    /\ CapIndex(markdown) > HistoryCap

\* C38: the scroll lock is held exactly while a release timer is pending; a
\* scroll event that passes the guard takes the lock also when its pane cannot
\* be scrolled, and then no position is written to the other pane
C38_LockIffTimer ==
    /\ [](scroll.syncSourceRef \in Panes <=> scroll.syncTimeoutRef \in {"set", "due"})
    /\ [][(lastOp' = "scrollEvent" /\ ~lastFlag') =>
             /\ scroll'.syncSourceRef = lastArg'[1]
             /\ scroll'.syncTimeoutRef = "set"
             /\ ScrollMax(scroll, lastArg'[1]) = 0 =>
                   /\ scroll'.editor = scroll.editor
                   /\ scroll'.preview = scroll.preview
                   /\ scroll'.events = scroll.events \ {lastArg'[1]}]_vars

\* the editor, which cannot be scrolled, has taken the lock and the preview has
\* stayed where it was
C38_Witness ==
    /\ lastOp = "scrollEvent"
    /\ ~lastFlag
    /\ lastArg = <<"editor">>
    /\ scroll.editorMax = 0
    /\ scroll.syncSourceRef = "editor"
    /\ scroll.syncTimeoutRef = "set"
    /\ scroll.preview = MaxPreviewScroll
    /\ scroll.events = {}

\* C39: isShortening is true exactly while a shortenUrl call is in flight, and
\* the link and the too-large flag of the dialog are those of the share
\* request issued last: a call that settles after a later call was issued does
\* not change them
C39_OverlappingShares ==
    /\ [](share.isShortening <=> PendingCalls # {})
    /\ [][\A i \in PendingCalls :
             (~shortenCalls'[i].pending /\ i < Len(shortenCalls)) =>
                 /\ share'.shareUrl = share.shareUrl
                 /\ share'.isUrlTooLarge = share.isUrlTooLarge]_vars

\* C40: whatever the c parameter is, the effect of the Viewer ends with
\* loading = false, and then either an error message is set or a non-empty
\* document is shown with no error; it never shows an empty document without
\* an error
C40_ViewerOutcome ==
    lastOp = "openLink" =>
        /\ ~viewer.loading
        /\ viewer.error \in {ErrAbsent, ErrEmpty, ErrCorrupt, ErrException, NoError}
        /\ viewer.error = NoError => viewer.content # EmptyText

\* the link of the empty document: nothing is shown but the message
C40_Witness ==
    /\ lastOp = "openLink"
    /\ lastArg = <<"Q">>
    /\ ~viewer.loading
    /\ viewer.error = ErrCorrupt
    /\ viewer.content = EmptyText

====
